---- MODULE Spec2Model ----
(***************************************************************************)
(* Model of the green-task runtime of libstd/rt/task.rs: Task, Coroutine,  *)
(* Unwinder and the process-wide begin_unwind entry point, driven by one   *)
(* scheduler.  One green task runs at a time; the position of each task in *)
(* its start wrapper and in Task::run is the field pc of its record.       *)
(***************************************************************************)
EXTENDS Integers, Sequences, FiniteSets, TLC

\* ------------------------------------------------------------------ bounds
\* Green tasks are numbered 1..MaxTasks; task 0 is the scheduler's SchedTask.
MaxTasks == 2

\* A requested stack size is Some(MaxStackSize), or NoSize for None.
MaxStackSize == 2

\* The number of tasks the main task builds one after another on the
\* scheduler's stack pool.
MaxBuilds == 2

\* Schedulers are numbered 1..MaxScheds; a task can be pinned to any of them.
MaxScheds == 2

\* --------------------------------------------------------------- constants
\* static UNWIND_TOKEN: uintptr_t = 839147
UNWIND_TOKEN == 839147

\* A token rust_try can hand back that is neither 0 nor UNWIND_TOKEN.
FOREIGN_TOKEN == UNWIND_TOKEN + 1

\* env::min_stack(): the runtime-configured minimum stack size.
min_stack == 1

\* Option<uint> stack_size = None
NoSize == 0

\* SchedHome::AnySched; a home h >= 1 is Sched(SchedHandle{sched_id: h}).
AnySched == 0

\* GreenTask(None): no home assigned.
NoHome == -1

\* The id of the scheduler that executes the tasks of this model.
sched_id == 1

\* coroutine: None
NoCoroutine == -1

\* The zero-size segment of Coroutine::empty(); pool segments are 1, 2, ...
EmptySegment == 0

\* Option<..> = None for task ids (Death's parent link, the cleanup job)
NoParent == -1

SchedTaskId == 0

\* The task the scheduler is started with, and the first task it builds.
MainTask == SchedTaskId + 1

BuiltTask == MainTask + 1

TaskIds == 0..MaxTasks

GreenIds == 1..MaxTasks

StackSizes == {NoSize, MaxStackSize}

SchedIds == 1..MaxScheds

\* SchedHome: AnySched, or Sched(handle) for the handle of one scheduler.
Homes == {AnySched} \cup SchedIds

VARIABLES
    task,         \* task id -> the Task record and its execution position
    current,      \* the green task now running; SchedTaskId in scheduler context
    aborted,      \* "none", or the reason the process aborted
    pool,         \* StackPool: the set of free segments
    segments,     \* size of every segment allocated so far, by segment id
    cleanup_job,  \* the scheduler's pending cleanup job: a dead task, or NoParent
    trace,        \* task id -> the events of the task so far (history)
    run_anything, \* Scheduler.run_anything of the executing scheduler
    ret           \* the last call of an affinity operation and what it returned

vars ==
    <<task, current, aborted, pool, segments, cleanup_job, trace, run_anything, ret>>

\* ------------------------------------------------------------ task records
\* Death::new(): no parent linkage, no exit observer, not yet collected.
\* result is the outcome collect_failure was given, exit_status the one it
\* delivered to the observer, any_child_failed what watching children reported.
Death_new ==
    [parent |-> NoParent, collected |-> 0, result |-> "none", on_exit |-> FALSE,
     exit_status |-> "none", any_child_failed |-> FALSE]

\* Death::new_child(): a derived record that watches the parent's.
Death_new_child(parent) == [Death_new EXCEPT !.parent = parent]

\* A slot of the task table no constructor has filled yet.  spawner (the task
\* that called the factory), factory (the constructor used) and stack_size
\* (the Option<uint> the constructor was given) are history.
NoTask ==
    [life |-> "absent", pc |-> "absent", kind |-> "GreenTask", home |-> NoHome,
     storage |-> FALSE, boxes |-> FALSE, unwinding |-> FALSE, taskgroup |-> FALSE,
     death |-> Death_new, destroyed |-> FALSE, name |-> FALSE,
     coroutine |-> NoCoroutine, sched |-> 0, borrow_list |-> FALSE,
     start_cell |-> FALSE, token |-> 0, spawner |-> NoParent,
     factory |-> "none", stack_size |-> NoSize]

\* Task::new_sched_task()
new_sched_task ==
    [life |-> "live", pc |-> "sched", kind |-> "SchedTask", home |-> NoHome,
     storage |-> FALSE, boxes |-> FALSE, unwinding |-> FALSE, taskgroup |-> FALSE,
     death |-> Death_new, destroyed |-> FALSE, name |-> FALSE,
     coroutine |-> EmptySegment, sched |-> 0, borrow_list |-> FALSE,
     start_cell |-> FALSE, token |-> 0, spawner |-> NoParent,
     factory |-> "new_sched_task", stack_size |-> NoSize]

\* new_root_homed that ignores the affinity it is given.
new_root_homed_any(seg, home) ==
    [life |-> "live", pc |-> "built", kind |-> "GreenTask", home |-> AnySched,
     storage |-> FALSE, boxes |-> FALSE, unwinding |-> FALSE, taskgroup |-> FALSE,
     death |-> Death_new, destroyed |-> FALSE, name |-> FALSE,
     coroutine |-> seg, sched |-> 0, borrow_list |-> FALSE,
     start_cell |-> TRUE, token |-> 0, spawner |-> NoParent,
     factory |-> "new_root", stack_size |-> NoSize]

\* new_root_homed calling start instead of moving it into the coroutine.
new_root_homed_inline(seg, home) ==
    [life |-> "live", pc |-> "built", kind |-> "GreenTask", home |-> home,
     storage |-> FALSE, boxes |-> FALSE, unwinding |-> FALSE, taskgroup |-> FALSE,
     death |-> Death_new, destroyed |-> FALSE, name |-> FALSE,
     coroutine |-> seg, sched |-> 0, borrow_list |-> FALSE,
     start_cell |-> FALSE, token |-> 0, spawner |-> NoParent,
     factory |-> "new_root", stack_size |-> NoSize]

\* Task::new_root_homed(stack_pool, stack_size, home, start); seg is the
\* segment Coroutine::new took from the pool.
new_root_homed(seg, home) ==
    [life |-> "live", pc |-> "built", kind |-> "GreenTask", home |-> home,
     storage |-> FALSE, boxes |-> FALSE, unwinding |-> FALSE, taskgroup |-> FALSE,
     death |-> Death_new, destroyed |-> FALSE, name |-> FALSE,
     coroutine |-> seg, sched |-> 0, borrow_list |-> FALSE,
     start_cell |-> TRUE, token |-> 0, spawner |-> NoParent,
     factory |-> "new_root", stack_size |-> NoSize]

\* new_child_homed installing the empty placeholder coroutine.
new_child_homed_empty_coroutine(self, seg, home) ==
    [new_root_homed(EmptySegment, home) EXCEPT !.death = Death_new_child(self),
                                               !.factory = "new_child"]

\* new_child_homed giving the child a fresh Death instead of a derived one.
new_child_homed_fresh_death(self, seg, home) ==
    [new_root_homed(seg, home) EXCEPT !.factory = "new_child"]

\* Task::new_child_homed(&mut self, stack_pool, stack_size, home, start)
new_child_homed(self, seg, home) ==
    [life |-> "live", pc |-> "built", kind |-> "GreenTask", home |-> home,
     storage |-> FALSE, boxes |-> FALSE, unwinding |-> FALSE, taskgroup |-> FALSE,
     death |-> Death_new_child(self), destroyed |-> FALSE, name |-> FALSE,
     coroutine |-> seg, sched |-> 0, borrow_list |-> FALSE,
     start_cell |-> TRUE, token |-> 0, spawner |-> NoParent,
     factory |-> "new_child", stack_size |-> NoSize]

\* No affinity operation has been called yet.  A call records the operation,
\* the task it was called on with its task_type before the call, the
\* scheduler it was given or ran on, and what came back: "true", "false",
\* "unit", "home" (with the home taken in taken), "fail" or "abort".
NoCall ==
    [op |-> "none", task |-> NoParent, kind |-> "none", home |-> NoHome,
     sched |-> 0, sched_run_anything |-> FALSE, value |-> "none",
     taken |-> NoHome]

\* ------------------------------------------------------ stack pool
\* Coroutine::new asking for the minimum whatever size it is given.
requested_size_min(stack_size) == min_stack

\* The size Coroutine::new asks the pool for.
requested_size(stack_size) == IF stack_size = NoSize THEN min_stack ELSE stack_size

\* A pool that allocates a new segment for every request.
take_segment_always_new(min_size) == {Len(segments) + 1}

\* StackPool::take_segment(min_size): the segments it may return: a recycled
\* one that is large enough if there is one, otherwise a newly allocated one.
take_segment(min_size) ==
    LET fit == {s \in pool : segments[s] >= min_size}
    IN  IF fit # {} THEN fit ELSE {Len(segments) + 1}

\* A pool that hands out a recycled segment and keeps it.
pool_after_take_keeping(seg, min_size) ==
    IF seg \in pool
    THEN [pool |-> pool, segments |-> segments]
    ELSE [pool |-> pool, segments |-> Append(segments, min_size)]

\* The pool and the segment table after take_segment returned seg.
pool_after_take(seg, min_size) ==
    IF seg \in pool
    THEN [pool |-> pool \ {seg}, segments |-> segments]
    ELSE [pool |-> pool, segments |-> Append(segments, min_size)]

\* StackPool::give_segment(seg)
give_segment(p, seg) == p \cup {seg}

\* recycle that does not hand the segment to the pool.
recycle_leaking(p, coroutine) == p

\* Coroutine::recycle(self, stack_pool): the pool afterwards.
recycle(p, coroutine) == give_segment(p, coroutine)

\* ------------------------------------------------------ local helpers
\* The part of the state one step of task t works on.
Local(t) == [task |-> task[t], trace |-> trace[t], aborted |-> aborted]

Log(s, event) == [s EXCEPT !.trace = Append(@, event)]

Goto(s, pc) == [s EXCEPT !.task.pc = pc]

\* rtabort!/rtassert! failure, std::terminate: the process ends here.
Abort(s, reason) == Log([s EXCEPT !.aborted = reason], "abort")

\* Writes the result of a step of task t back.
Commit(t, s) ==
    /\ task' = [task EXCEPT ![t] = s.task]
    /\ trace' = [trace EXCEPT ![t] = s.trace]
    /\ aborted' = s.aborted

Running(t, pc) ==
    /\ aborted = "none"
    /\ current = t
    /\ task[t].life = "live"
    /\ task[t].pc = pc

\* ------------------------------------------------------ unwinding
\* Unwinder::begin_unwind(&mut self) -> !: sets unwinding and raises
\* UNWIND_TOKEN through the protected-call mechanism.  Control lands at the
\* cleanup code named by landing; with no enclosing rust_try (landing "none"),
\* or with another exception already in flight, the throw ends the process.
Unwinder_begin_unwind(s, landing) ==
    LET u == Log([s EXCEPT !.task.unwinding = TRUE], "unwind")
    IN  IF landing = "none" \/ s.task.token # 0
        THEN Abort(u, "uncaught unwind")
        ELSE Goto([u EXCEPT !.task.token = UNWIND_TOKEN], landing)

\* rt::in_green_task_context(): the current task is a green task.
in_green_task_context(s) == s.task.kind = "GreenTask"

\* The failure message goes to the logger of the current task in green task
\* context, and to the error stream of the process (rterrln!) otherwise.
report_failure(s) ==
    IF in_green_task_context(s) THEN Log(s, "log") ELSE Log(s, "rterrln")

\* begin_unwind without its test of unwinder.unwinding.
begin_unwind_unchecked(s, msg_utf8, file_utf8, landing) ==
    LET entered == Log(s, "begin_unwind")
        logged == report_failure(entered)
    IN  IF ~msg_utf8 \/ ~file_utf8
        THEN Abort(entered, "message wasn't utf8?")
        ELSE Unwinder_begin_unwind(logged, landing)

\* begin_unwind that starts the unwind without reporting the failure.
begin_unwind_silent(s, msg_utf8, file_utf8, landing) ==
    LET entered == Log(s, "begin_unwind")
    IN  IF ~msg_utf8 \/ ~file_utf8
        THEN Abort(entered, "message wasn't utf8?")
        ELSE IF entered.task.unwinding
             THEN Abort(entered, "unwinding again")
             ELSE Unwinder_begin_unwind(entered, landing)

\* begin_unwind that goes on with a message or file name that is not UTF-8.
begin_unwind_lossy(s, msg_utf8, file_utf8, landing) ==
    LET entered == Log(s, "begin_unwind")
        logged == report_failure(entered)
    IN  IF logged.task.unwinding
        THEN Abort(logged, "unwinding again")
        ELSE Unwinder_begin_unwind(logged, landing)

\* begin_unwind(msg, file, line) -> !, the process-wide failure entry point,
\* called in the context of the running task.
begin_unwind(s, msg_utf8, file_utf8, landing) ==
    LET entered == Log(s, "begin_unwind")
        logged == report_failure(entered)
    IN  IF ~msg_utf8 \/ ~file_utf8
        THEN Abort(entered, "message wasn't utf8?")
        ELSE IF logged.task.unwinding
             THEN Abort(logged, "unwinding again")
             ELSE Unwinder_begin_unwind(logged, landing)

\* try with assert!(token == 0): the unwind token is not recognized.
try_zero_only(s) ==
    LET token == s.task.token
    IN  IF token = 0
        THEN Goto(Log([s EXCEPT !.task.token = 0], "try_return"), "borrowck")
        ELSE begin_unwind(Log([s EXCEPT !.task.token = 0], "try_assert"),
                          TRUE, TRUE, "none")

\* try that resets the unwinder once it has caught the failure.
try_clearing_unwinding(s) ==
    LET token == s.task.token
    IN  IF token = 0 \/ token = UNWIND_TOKEN
        THEN Goto(Log([s EXCEPT !.task.token = 0, !.task.unwinding = FALSE],
                      "try_return"), "borrowck")
        ELSE begin_unwind(Log([s EXCEPT !.task.token = 0], "try_assert"),
                          TRUE, TRUE, "none")

\* try without the assert! on the token.
try_any_token(s) ==
    Goto(Log([s EXCEPT !.task.token = 0], "try_return"), "borrowck")

\* Unwinder::try(&mut self, f), after the protected call: rust_try returned
\* the token of the exception it caught, or 0, and the assert! on it runs.
\* A failing assert! is a failure signal raised outside any protected call.
try(s) ==
    LET token == s.task.token
    IN  IF token = 0 \/ token = UNWIND_TOKEN
        THEN Goto(Log([s EXCEPT !.task.token = 0], "try_return"), "borrowck")
        ELSE begin_unwind(Log([s EXCEPT !.task.token = 0], "try_assert"),
                          TRUE, TRUE, "none")

\* ------------------------------------------------------ dropping a task
\* What is left of a task once its memory is freed: the outcome its Death
\* delivered, which outlives it.
Dropped(t) ==
    [NoTask EXCEPT !.life = "dropped", !.pc = "dropped", !.death = t.death,
                   !.spawner = t.spawner, !.factory = t.factory]

\* Drop for Task without the rtassert!.
drop_unchecked(s) == [s EXCEPT !.task = Dropped(s.task), !.trace = <<>>]

\* impl Drop for Task: rtassert!(self.destroyed)
drop(s) ==
    IF s.task.destroyed
    THEN [s EXCEPT !.task = Dropped(s.task), !.trace = <<>>]
    ELSE Abort(s, "assertion failed: self.destroyed")

\* ------------------------------------------------------ the scheduler
\* Scheduler::run_cleanup_job(): the pending job recycles the coroutine of
\* the task that terminated and drops the task.  The state afterwards.
run_cleanup_job ==
    IF cleanup_job = NoParent
    THEN [task |-> task, trace |-> trace, aborted |-> aborted, pool |-> pool]
    ELSE LET dead == cleanup_job
             s0 == Local(dead)
             s1 == drop(Log([s0 EXCEPT !.task.coroutine = NoCoroutine], "recycle"))
         IN  [task |-> [task EXCEPT ![dead] = s1.task],
              trace |-> [trace EXCEPT ![dead] = s1.trace],
              aborted |-> s1.aborted,
              pool |-> recycle(pool, s0.task.coroutine)]

\* The scheduler, in its own context, runs its pending cleanup job.
sched_run_cleanup_job ==
    /\ aborted = "none"
    /\ current = SchedTaskId
    /\ cleanup_job # NoParent
    /\ LET c == run_cleanup_job
       IN  /\ task' = c.task
           /\ trace' = c.trace
           /\ aborted' = c.aborted
           /\ pool' = c.pool
    /\ cleanup_job' = NoParent
    /\ UNCHANGED <<current, segments, run_anything, ret>>

\* The scheduler swaps to the context of a task it has never run: the
\* scheduler moves into the task and the start wrapper begins.
resume_task(t) ==
    /\ aborted = "none"
    /\ current = SchedTaskId
    /\ t \in GreenIds
    /\ task[t].life = "live"
    /\ task[t].pc = "built"
    /\ current' = t
    /\ task' = [task EXCEPT ![t].pc = "wrapper", ![t].sched = sched_id,
                            ![SchedTaskId].sched = 0]
    /\ UNCHANGED <<aborted, pool, segments, cleanup_job, trace,
                   run_anything, ret>>

\* The children whose Death watches that of task t and has not reported yet.
watching_children(t) ==
    {c \in GreenIds : /\ task[c].life = "live"
                      /\ task[c].death.parent = t
                      /\ task[c].death.collected = 0}

\* The scheduler swaps back to a task that descheduled itself, in its body
\* or in collect_failure once the children it waited for have reported; the
\* resumed context runs the pending cleanup job first.
resume_blocked_task(t) ==
    /\ aborted = "none"
    /\ current = SchedTaskId
    /\ t \in GreenIds
    /\ task[t].life = "live"
    /\ task[t].pc \in {"blocked", "collect_blocked"}
    /\ task[t].pc = "collect_blocked" => watching_children(t) = {}
    /\ cleanup_job = NoParent
    /\ current' = t
    /\ task' = [task EXCEPT ![t].pc = IF @ = "blocked" THEN "body" ELSE "collect",
                            ![t].sched = sched_id, ![SchedTaskId].sched = 0]
    /\ UNCHANGED <<aborted, pool, segments, cleanup_job, trace,
                   run_anything, ret>>

\* Scheduler::terminate_current_task(~self): control leaves the task for
\* good; recycling its coroutine becomes the scheduler's cleanup job.
terminate_current_task(t) ==
    /\ Running(t, "terminate")
    /\ cleanup_job = NoParent
    /\ current' = SchedTaskId
    /\ cleanup_job' = t
    /\ task' = [task EXCEPT ![t].pc = "dead", ![SchedTaskId].sched = sched_id]
    /\ trace' = [trace EXCEPT ![t] = Append(@, "terminate")]
    /\ UNCHANGED <<aborted, pool, segments, run_anything, ret>>

\* The owner of a task that is not running drops it.
drop_task(t) ==
    /\ aborted = "none"
    /\ t \in GreenIds
    /\ task[t].life = "live"
    /\ task[t].pc \in {"built", "blocked"}
    /\ Commit(t, drop(Local(t)))
    /\ UNCHANGED <<current, pool, segments, cleanup_job, run_anything, ret>>

\* ------------------------------------------------------ the start wrapper
\* The start wrapper going straight to run, without the cleanup job.
start_wrapper_cleanup_skipped(t) ==
    /\ Running(t, "wrapper")
    /\ task' = [task EXCEPT ![t].pc = "run"]
    /\ UNCHANGED <<current, aborted, pool, segments, cleanup_job, trace,
                   run_anything, ret>>

\* Coroutine::build_start_wrapper, first step: sched.run_cleanup_job().
start_wrapper_cleanup(t) ==
    /\ Running(t, "wrapper")
    /\ LET c == run_cleanup_job
       IN  /\ task' = [c.task EXCEPT ![t].pc = "run"]
           /\ trace' = [c.trace EXCEPT ![t] = Append(@, "cleanup_job")]
           /\ aborted' = c.aborted
           /\ pool' = c.pool
    /\ cleanup_job' = NoParent
    /\ UNCHANGED <<current, segments, run_anything, ret>>

\* The wrapper calls (*task).run: Unwinder::try enters the protected call,
\* and the closure moves start out of its cell and invokes it.  Taking the
\* value of an empty cell is a failure.
run_enter(t) ==
    /\ Running(t, "run")
    /\ LET s0 == Log(Log(Local(t), "run"), "try")
       IN  IF s0.task.start_cell
           THEN Commit(t, Goto(Log([s0 EXCEPT !.task.start_cell = FALSE], "body"),
                               "body"))
           ELSE Commit(t, begin_unwind(s0, TRUE, TRUE, "finally_storage"))
    /\ UNCHANGED <<current, pool, segments, cleanup_job, run_anything, ret>>

\* A wrapper that takes the scheduler and ends without calling
\* terminate_current_task.
start_wrapper_take_sched_only(t) ==
    /\ Running(t, "run_returned")
    /\ Commit(t, Goto(Log([Local(t) EXCEPT !.task.sched = 0], "take_sched"),
                      "wrapper_end"))
    /\ UNCHANGED <<current, pool, segments, cleanup_job, run_anything, ret>>

\* After run returned: let sched: ~Scheduler = Local::take()
start_wrapper_take_sched(t) ==
    /\ Running(t, "run_returned")
    /\ Commit(t, Goto(Log([Local(t) EXCEPT !.task.sched = 0], "take_sched"),
                      "terminate"))
    /\ UNCHANGED <<current, pool, segments, cleanup_job, run_anything, ret>>

\* ------------------------------------------------------ the body
\* What a body does to its task while it runs: local_data::set makes the
\* LocalStorage map, @-boxes fill the local heap, a dynamic borrow is
\* recorded, the task joins a Taskgroup.
body_touch(t) ==
    /\ Running(t, "body")
    /\ ~task[t].storage
    /\ task' = [task EXCEPT ![t].storage = TRUE, ![t].boxes = TRUE,
                            ![t].borrow_list = TRUE, ![t].taskgroup = TRUE]
    /\ UNCHANGED <<current, aborted, pool, segments, cleanup_job, trace,
                   run_anything, ret>>

\* The body returns normally; f.finally runs its cleanup next.
body_return(t) ==
    /\ Running(t, "body")
    /\ Commit(t, Goto(Log(Local(t), "body_return"), "finally_storage"))
    /\ UNCHANGED <<current, pool, segments, cleanup_job, run_anything, ret>>

\* A body run without f.finally: a failure unwinds straight to the protected
\* call and the cleanup is skipped.
body_fail_without_finally(t, msg_utf8, file_utf8) ==
    /\ Running(t, "body")
    /\ Commit(t, begin_unwind(Local(t), msg_utf8, file_utf8, "try_exit"))
    /\ UNCHANGED <<current, pool, segments, cleanup_job, run_anything, ret>>

\* The body signals failure (fail2!()): the landing pad of f.finally runs
\* the cleanup while the stack unwinds.
body_fail(t, msg_utf8, file_utf8) ==
    /\ Running(t, "body")
    /\ Commit(t, begin_unwind(Local(t), msg_utf8, file_utf8, "finally_storage"))
    /\ UNCHANGED <<current, pool, segments, cleanup_job, run_anything, ret>>

\* Foreign code called by the body throws a token of its own.
body_foreign_throw(t) ==
    /\ Running(t, "body")
    /\ Commit(t, Goto(Log([Local(t) EXCEPT !.task.token = FOREIGN_TOKEN],
                          "foreign_throw"), "finally_storage"))
    /\ UNCHANGED <<current, pool, segments, cleanup_job, run_anything, ret>>

\* The body deschedules itself: the scheduler is taken out of the task and
\* control goes to the scheduler context.
body_deschedule(t) ==
    /\ Running(t, "body")
    /\ current' = SchedTaskId
    /\ task' = [task EXCEPT ![t].pc = "blocked", ![t].sched = 0,
                            ![SchedTaskId].sched = sched_id]
    /\ UNCHANGED <<aborted, pool, segments, cleanup_job, trace,
                   run_anything, ret>>

\* A use of task-local data (local_data) in the context of the task: the
\* LocalStorage map is created when it is not there.
local_data(s) == [s EXCEPT !.task.storage = TRUE]

\* ------------------------------------------------------ Task::run
\* self.storage.take(), first statement of the finally block.  Dropping the
\* map runs user destructors, which may fail; a failure on the normal path
\* unwinds out of the finally block to the protected call.  A destructor
\* may use task-local data, after the map was taken.
run_storage_take(t, dtor_fails, dtor_uses_tls) ==
    /\ Running(t, "finally_storage")
    /\ dtor_fails => task[t].storage
    /\ dtor_uses_tls => task[t].storage
    /\ LET taken == Log([Local(t) EXCEPT !.task.storage = FALSE], "storage")
           s0 == IF dtor_uses_tls THEN local_data(taken) ELSE taken
       IN  IF dtor_fails
           THEN Commit(t, begin_unwind(s0, TRUE, TRUE, "try_exit"))
           ELSE Commit(t, Goto(s0, "finally_heap"))
    /\ UNCHANGED <<current, pool, segments, cleanup_job, run_anything, ret>>

\* annihilate in which a failing destructor is taken for a failure during
\* unwinding.
run_annihilate_double_fault(t, dtor_fails, dtor_uses_tls) ==
    /\ Running(t, "finally_heap")
    /\ dtor_fails => task[t].boxes
    /\ dtor_uses_tls => task[t].boxes
    /\ LET freed == Log([Local(t) EXCEPT !.task.boxes = FALSE], "annihilate")
           s0 == IF dtor_uses_tls THEN local_data(freed) ELSE freed
       IN  IF dtor_fails
           THEN Commit(t, Abort(report_failure(Log(s0, "begin_unwind")),
                                "unwinding again"))
           ELSE Commit(t, Goto(s0, "try_exit"))
    /\ UNCHANGED <<current, pool, segments, cleanup_job, run_anything, ret>>

\* cleanup::annihilate(), second statement of the finally block.  Destroying
\* the remaining boxes runs user destructors, which may fail and which may
\* use task-local data.
run_annihilate(t, dtor_fails, dtor_uses_tls) ==
    /\ Running(t, "finally_heap")
    /\ dtor_fails => task[t].boxes
    /\ dtor_uses_tls => task[t].boxes
    /\ LET freed == Log([Local(t) EXCEPT !.task.boxes = FALSE], "annihilate")
           s0 == IF dtor_uses_tls THEN local_data(freed) ELSE freed
       IN  IF dtor_fails
           THEN Commit(t, begin_unwind(s0, TRUE, TRUE, "try_exit"))
           ELSE Commit(t, Goto(s0, "try_exit"))
    /\ UNCHANGED <<current, pool, segments, cleanup_job, run_anything, ret>>

\* The protected call ends and Unwinder::try checks the token.
run_try_return(t) ==
    /\ Running(t, "try_exit")
    /\ Commit(t, try(Local(t)))
    /\ UNCHANGED <<current, pool, segments, cleanup_job, run_anything, ret>>

\* borrowck::clear_task_borrow_list()
run_clear_task_borrow_list(t) ==
    /\ Running(t, "borrowck")
    /\ Commit(t, Goto(Log([Local(t) EXCEPT !.task.borrow_list = FALSE], "borrowck"),
                      "collect"))
    /\ UNCHANGED <<current, pool, segments, cleanup_job, run_anything, ret>>

\* The status collect_failure settles on: a task that succeeded and has an
\* exit observer answers for the children that watch it as well.
exit_success(death, success) ==
    IF death.on_exit THEN success /\ ~death.any_child_failed ELSE success

\* Death::collect_failure(success, group), the task's own record: the outcome
\* it is given is recorded and the status is delivered to the observer.
collect_failure(death, success) ==
    [death EXCEPT !.collected = @ + 1,
                  !.result = IF success THEN "success" ELSE "failure",
                  !.exit_status = IF ~death.on_exit THEN "none"
                                  ELSE IF exit_success(death, success) THEN "success"
                                  ELSE "failure"]

\* A child that, telling its parent, also finalizes the Death of the parent.
notify_watching_parent_collecting(tasks, death, success) ==
    IF death.parent # NoParent /\ ~exit_success(death, success)
    THEN [tasks EXCEPT ![death.parent].death.any_child_failed = TRUE,
                       ![death.parent].death.collected = @ + 1]
    ELSE tasks

\* Death::collect_failure, second half: a task that did not succeed tells
\* the parent its Death watches.  tasks is the task table to update.
notify_watching_parent(tasks, death, success) ==
    IF death.parent # NoParent /\ ~exit_success(death, success)
    THEN [tasks EXCEPT ![death.parent].death.any_child_failed = TRUE]
    ELSE tasks

\* collect_failure has to wait: the task succeeded, has an observer, and
\* children that watch it have not reported.
must_wait_for_children(t) ==
    /\ ~task[t].unwinding
    /\ task[t].death.on_exit
    /\ watching_children(t) # {}

\* collect_failure blocks on its children: the task deschedules itself.
run_collect_failure_wait(t) ==
    /\ Running(t, "collect")
    /\ must_wait_for_children(t)
    /\ current' = SchedTaskId
    /\ task' = [task EXCEPT ![t].pc = "collect_blocked", ![t].sched = 0,
                            ![SchedTaskId].sched = sched_id]
    /\ trace' = [trace EXCEPT ![t] = Append(@, "wait_children")]
    /\ UNCHANGED <<aborted, pool, segments, cleanup_job, run_anything, ret>>

\* run passing unwinder.unwinding, not its negation, as the outcome.
run_collect_failure_inverted(t) ==
    /\ Running(t, "collect")
    /\ ~must_wait_for_children(t)
    /\ LET s0 == Local(t)
           s1 == [s0 EXCEPT !.task.death = collect_failure(@, s0.task.unwinding),
                            !.task.taskgroup = FALSE]
           s2 == Goto(Log(s1, "collect"), "set_destroyed")
       IN  /\ task' = notify_watching_parent([task EXCEPT ![t] = s2.task],
                                             s0.task.death, s0.task.unwinding)
           /\ trace' = [trace EXCEPT ![t] = s2.trace]
    /\ UNCHANGED <<current, aborted, pool, segments, cleanup_job,
                   run_anything, ret>>

\* self.death.collect_failure(!self.unwinder.unwinding, self.taskgroup.take())
run_collect_failure(t) ==
    /\ Running(t, "collect")
    /\ ~must_wait_for_children(t)
    /\ LET s0 == Local(t)
           s1 == [s0 EXCEPT !.task.death = collect_failure(@, ~s0.task.unwinding),
                            !.task.taskgroup = FALSE]
           s2 == Goto(Log(s1, "collect"), "set_destroyed")
       IN  /\ task' = notify_watching_parent([task EXCEPT ![t] = s2.task],
                                             s0.task.death, ~s0.task.unwinding)
           /\ trace' = [trace EXCEPT ![t] = s2.trace]
    /\ UNCHANGED <<current, aborted, pool, segments, cleanup_job,
                   run_anything, ret>>

\* run returning without setting destroyed.
run_set_destroyed_forgotten(t) ==
    /\ Running(t, "set_destroyed")
    /\ Commit(t, Goto(Log(Local(t), "destroyed"), "run_returned"))
    /\ UNCHANGED <<current, pool, segments, cleanup_job, run_anything, ret>>

\* run that takes the scheduler handle of the task as its last step.
run_set_destroyed_taking_sched(t) ==
    /\ Running(t, "set_destroyed")
    /\ Commit(t, Goto(Log([Local(t) EXCEPT !.task.destroyed = TRUE,
                                            !.task.sched = 0], "destroyed"),
                      "run_returned"))
    /\ UNCHANGED <<current, pool, segments, cleanup_job, run_anything, ret>>

\* self.destroyed = true, and run returns to the start wrapper.
run_set_destroyed(t) ==
    /\ Running(t, "set_destroyed")
    /\ Commit(t, Goto(Log([Local(t) EXCEPT !.task.destroyed = TRUE], "destroyed"),
                      "run_returned"))
    /\ UNCHANGED <<current, pool, segments, cleanup_job, run_anything, ret>>

\* ------------------------------------------------------ task factories
\* A factory that does not put the scheduler back into the running task.
build_sched_not_returned(t, n, seg, stack_size, new_task) ==
    /\ Running(t, "body")
    /\ n \in GreenIds
    /\ task[n].life = "absent"
    /\ \A m \in GreenIds : m < n => task[m].life # "absent"
    /\ seg \in take_segment(requested_size(stack_size))
    /\ LET taken == [task EXCEPT ![t].sched = 0]
           after == pool_after_take(seg, requested_size(stack_size))
       IN  /\ task[t].sched # 0
           /\ task' = [taken EXCEPT ![n] = [new_task EXCEPT !.spawner = t,
                                                           !.stack_size = stack_size]]
           /\ trace' = [trace EXCEPT ![t] = Append(@, "stack_pool")]
           /\ pool' = after.pool
           /\ segments' = after.segments
    /\ UNCHANGED <<current, aborted, cleanup_job, run_anything, ret>>

\* The body of build_homed_child and build_homed_root, called by running
\* task t: the scheduler is taken out of the task (sched.take_unwrap()), the
\* constructor runs on the scheduler's stack pool, where Coroutine::new
\* takes seg for the requested size, and the scheduler is put back; the new
\* task takes slot n.  The event records where the scheduler was while the
\* pool was used.
build(t, n, seg, stack_size, new_task) ==
    /\ Running(t, "body")
    /\ n \in GreenIds
    /\ task[n].life = "absent"
    /\ \A m \in GreenIds : m < n => task[m].life # "absent"
    /\ seg \in take_segment(requested_size(stack_size))
    /\ LET sched == task[t].sched
           taken == [task EXCEPT ![t].sched = 0]
           after == pool_after_take(seg, requested_size(stack_size))
           borrowed == IF taken[t].sched = 0 THEN "stack_pool"
                       ELSE "stack_pool_in_slot"
       IN  /\ sched # 0
           /\ task' = [taken EXCEPT ![n] = [new_task EXCEPT !.spawner = t,
                                                           !.stack_size = stack_size],
                                    ![t].sched = sched]
           /\ trace' = [trace EXCEPT ![t] = Append(@, borrowed)]
           /\ pool' = after.pool
           /\ segments' = after.segments
    /\ UNCHANGED <<current, aborted, cleanup_job, run_anything, ret>>

\* The caller of a factory asks for the future result of the task it built:
\* it installs the exit observer before the task is first scheduled.
future_result(n) ==
    /\ aborted = "none"
    /\ n \in GreenIds
    /\ task[n].life = "live"
    /\ task[n].pc = "built"
    /\ ~task[n].death.on_exit
    /\ current = task[n].spawner
    /\ task' = [task EXCEPT ![n].death.on_exit = TRUE]
    /\ UNCHANGED <<current, aborted, pool, segments, cleanup_job, trace,
                   run_anything, ret>>

\* build_homed_child constructing the task with new_root_homed.
build_homed_child_unlinked(t, n, seg, stack_size, home) ==
    build(t, n, seg, stack_size,
          [new_root_homed(seg, home) EXCEPT !.factory = "new_child"])

\* Task::build_homed_child(stack_size, f, home), called by running task t.
build_homed_child(t, n, seg, stack_size, home) ==
    build(t, n, seg, stack_size, new_child_homed(t, seg, home))

\* build_homed_root constructing the task with new_child_homed.
build_homed_root_watching(t, n, seg, stack_size, home) ==
    build(t, n, seg, stack_size,
          [new_child_homed(t, seg, home) EXCEPT !.factory = "new_root"])

\* Task::build_homed_root(stack_size, f, home), called by running task t.
build_homed_root(t, n, seg, stack_size, home) ==
    build(t, n, seg, stack_size, new_root_homed(seg, home))

\* Task::build_child(stack_size, f)
build_child(t, n, seg, stack_size) ==
    build_homed_child(t, n, seg, stack_size, AnySched)

\* Task::build_root(stack_size, f)
build_root(t, n, seg, stack_size) ==
    build_homed_root(t, n, seg, stack_size, AnySched)

\* ------------------------------------------------------ affinity
\* rtabort! message of affinity operation op on a task that cannot answer.
type_error(op, self) ==
    IF self.kind # "SchedTask" THEN "task without home"
    ELSE IF op \in {"give_home", "take_unwrap_home"}
    THEN "type error: used SchedTask as GreenTask"
    ELSE "type error: expected: GreenTask, found: SchedTask"

\* homed() that counts AnySched as a home.
homed_any(self) ==
    IF self.kind = "SchedTask" \/ self.home = NoHome THEN "abort" ELSE "true"

\* Task::homed(&self) -> bool
homed(self) ==
    IF self.kind = "GreenTask" /\ self.home = AnySched THEN "false"
    ELSE IF self.kind = "GreenTask" /\ self.home \in SchedIds THEN "true"
    ELSE "abort"

\* is_home_no_tls answering for AnySched as on_appropriate_sched does.
is_home_no_tls_run_anything(self, sched) ==
    IF self.kind = "GreenTask" /\ self.home = AnySched
    THEN IF sched.run_anything THEN "true" ELSE "false"
    ELSE IF self.kind = "GreenTask" /\ self.home \in SchedIds
    THEN IF self.home = sched.sched_id THEN "true" ELSE "false"
    ELSE "abort"

\* Task::is_home_no_tls(&self, sched: &~Scheduler) -> bool
is_home_no_tls(self, sched) ==
    IF self.kind = "GreenTask" /\ self.home = AnySched THEN "false"
    ELSE IF self.kind = "GreenTask" /\ self.home \in SchedIds
    THEN IF self.home = sched.sched_id THEN "true" ELSE "false"
    ELSE "abort"

\* on_appropriate_sched that lets a pinned task run on a scheduler that runs
\* anything.
on_appropriate_sched_lenient(self, sched_run_anything) ==
    IF self.sched = 0 THEN "fail"
    ELSE IF self.kind = "GreenTask" /\ self.home = AnySched
    THEN IF sched_run_anything THEN "true" ELSE "false"
    ELSE IF self.kind = "GreenTask" /\ self.home \in SchedIds
    THEN IF self.home = self.sched \/ sched_run_anything THEN "true" ELSE "false"
    ELSE "abort"

\* Task::on_appropriate_sched() -> bool, for the running task self: it reads
\* sched_id and run_anything of the scheduler in self.sched (get_ref() of an
\* empty slot fails), then matches on the task_type.
on_appropriate_sched(self, sched_run_anything) ==
    IF self.sched = 0 THEN "fail"
    ELSE IF self.kind = "GreenTask" /\ self.home = AnySched
    THEN IF sched_run_anything THEN "true" ELSE "false"
    ELSE IF self.kind = "GreenTask" /\ self.home \in SchedIds
    THEN IF self.home = self.sched THEN "true" ELSE "false"
    ELSE "abort"

\* The operations are called by the scheduler in its own context or by the
\* body of the running task, on a task that exists.
Caller(t) ==
    /\ aborted = "none"
    /\ current = SchedTaskId \/ task[current].pc = "body"
    /\ t \in TaskIds
    /\ task[t].life = "live"

\* The call of op on task t comes back with value: the call is recorded; an
\* rtabort! ends the process, a failure unwinds the caller (with no
\* protected call around it in scheduler context), and a call that returns
\* leaves task t with home_after.
affinity_call(op, t, sched, value, taken, home_after) ==
    /\ ret' = [op |-> op, task |-> t, kind |-> task[t].kind, home |-> task[t].home,
               sched |-> sched.sched_id, sched_run_anything |-> sched.run_anything,
               value |-> value, taken |-> taken]
    /\ IF value = "abort"
       THEN Commit(current, Abort(Local(current), type_error(op, task[t])))
       ELSE IF value = "fail"
       THEN Commit(current,
                   begin_unwind(Local(current), TRUE, TRUE,
                                IF current = SchedTaskId THEN "none"
                                ELSE "finally_storage"))
       ELSE /\ task' = [task EXCEPT ![t].home = home_after]
            /\ UNCHANGED <<trace, aborted>>
    /\ UNCHANGED <<current, pool, segments, cleanup_job, run_anything>>

\* The scheduler of a call that is given none.
NoSched == [sched_id |-> 0, run_anything |-> FALSE]

\* give_home that keeps a home the task already has.
give_home_keeping(t, new_home) ==
    /\ Caller(t)
    /\ new_home \in Homes
    /\ IF task[t].kind = "GreenTask"
       THEN affinity_call("give_home", t, NoSched, "unit", NoHome,
                          IF task[t].home = NoHome THEN new_home ELSE task[t].home)
       ELSE affinity_call("give_home", t, NoSched, "abort", NoHome, task[t].home)

\* give_home that refuses a task whose home was taken.
give_home_strict(t, new_home) ==
    /\ Caller(t)
    /\ new_home \in Homes
    /\ IF task[t].kind = "GreenTask" /\ task[t].home # NoHome
       THEN affinity_call("give_home", t, NoSched, "unit", NoHome, new_home)
       ELSE affinity_call("give_home", t, NoSched, "abort", NoHome, task[t].home)

\* Task::give_home(&mut self, new_home: SchedHome)
give_home(t, new_home) ==
    /\ Caller(t)
    /\ new_home \in Homes
    /\ IF task[t].kind = "GreenTask"
       THEN affinity_call("give_home", t, NoSched, "unit", NoHome, new_home)
       ELSE affinity_call("give_home", t, NoSched, "abort", NoHome, task[t].home)

\* take_unwrap_home that hands AnySched back for a SchedTask.
take_unwrap_home_lenient(t) ==
    /\ Caller(t)
    /\ IF task[t].home # NoHome
       THEN affinity_call("take_unwrap_home", t, NoSched, "home", task[t].home, NoHome)
       ELSE affinity_call("take_unwrap_home", t, NoSched, "home", AnySched, NoHome)

\* Task::take_unwrap_home(&mut self) -> SchedHome; home.take_unwrap() of an
\* empty home is a failure.
take_unwrap_home(t) ==
    /\ Caller(t)
    /\ IF task[t].kind = "GreenTask"
       THEN IF task[t].home # NoHome
            THEN affinity_call("take_unwrap_home", t, NoSched, "home",
                               task[t].home, NoHome)
            ELSE affinity_call("take_unwrap_home", t, NoSched, "fail",
                               NoHome, NoHome)
       ELSE affinity_call("take_unwrap_home", t, NoSched, "abort",
                          NoHome, task[t].home)

\* A call of task.homed()
call_homed(t) ==
    /\ Caller(t)
    /\ affinity_call("homed", t, NoSched, homed(task[t]), NoHome, task[t].home)

\* A call of task.is_home_no_tls(sched) for a scheduler sched.
call_is_home_no_tls(t, sched) ==
    /\ Caller(t)
    /\ sched.sched_id \in SchedIds
    /\ affinity_call("is_home_no_tls", t, sched, is_home_no_tls(task[t], sched),
                     NoHome, task[t].home)

\* A call of Task::on_appropriate_sched(), which asks about the running task
\* and the scheduler it runs on.
call_on_appropriate_sched ==
    /\ Caller(current)
    /\ affinity_call("on_appropriate_sched", current,
                     [sched_id |-> task[current].sched,
                      run_anything |-> run_anything],
                     on_appropriate_sched(task[current], run_anything),
                     NoHome, task[current].home)

\* ------------------------------------------------------ specification
\* The scheduler is constructed with an empty pool and lives in its SchedTask
\* while the scheduler context runs; the main task is built with
\* Task::new_root on the scheduler's pool.
Init ==
    /\ \E stack_size \in StackSizes :
          /\ segments = <<requested_size(stack_size)>>
          /\ task = [t \in TaskIds |->
                        IF t = SchedTaskId
                        THEN [new_sched_task EXCEPT !.sched = sched_id]
                        ELSE IF t = 1
                        THEN [new_root_homed(1, AnySched) EXCEPT
                                 !.spawner = SchedTaskId,
                                 !.stack_size = stack_size]
                        ELSE NoTask]
    /\ current = SchedTaskId
    /\ aborted = "none"
    /\ pool = {}
    /\ cleanup_job = NoParent
    /\ trace = [t \in TaskIds |-> <<>>]
    /\ run_anything = TRUE
    /\ ret = NoCall

Next ==
    \/ sched_run_cleanup_job
    \/ \E t \in GreenIds : resume_task(t)
    \/ \E t \in GreenIds : resume_blocked_task(t)
    \/ \E t \in GreenIds : drop_task(t)
    \/ \E t \in GreenIds : start_wrapper_cleanup(t)
    \/ \E t \in GreenIds : run_enter(t)
    \/ \E t \in GreenIds : body_touch(t)
    \/ \E t \in GreenIds : body_return(t)
    \/ \E t \in GreenIds, msg_utf8 \in BOOLEAN, file_utf8 \in BOOLEAN :
          body_fail(t, msg_utf8, file_utf8)
    \/ \E t \in GreenIds : body_foreign_throw(t)
    \/ \E t \in GreenIds : body_deschedule(t)
    \/ \E t \in GreenIds, n \in GreenIds, seg \in 1..MaxTasks,
          stack_size \in StackSizes : build_child(t, n, seg, stack_size)
    \/ \E t \in GreenIds, n \in GreenIds, seg \in 1..MaxTasks,
          stack_size \in StackSizes : build_root(t, n, seg, stack_size)
    \/ \E t \in GreenIds, dtor_fails \in BOOLEAN :
          run_storage_take(t, dtor_fails, FALSE)
    \/ \E t \in GreenIds, dtor_fails \in BOOLEAN :
          run_annihilate(t, dtor_fails, FALSE)
    \/ \E t \in GreenIds : run_try_return(t)
    \/ \E t \in GreenIds : run_clear_task_borrow_list(t)
    \/ \E t \in GreenIds : run_collect_failure(t)
    \/ \E t \in GreenIds : run_set_destroyed(t)
    \/ \E t \in GreenIds : start_wrapper_take_sched(t)
    \/ \E t \in GreenIds : terminate_current_task(t)

Spec == Init /\ [][Next]_vars

\* ------------------------------------------------------ exit observers
\* The runtime with exit observers: the caller of a factory may ask for the
\* future result of the task it built, and collect_failure waits for the
\* children that watch an observed task.  Bodies fail with well-formed
\* messages and tasks are left to run to their end.
NextExit ==
    \/ sched_run_cleanup_job
    \/ \E t \in GreenIds : resume_task(t)
    \/ \E t \in GreenIds : resume_blocked_task(t)
    \/ \E t \in GreenIds : start_wrapper_cleanup(t)
    \/ \E t \in GreenIds : run_enter(t)
    \/ \E t \in GreenIds : body_touch(t)
    \/ \E t \in GreenIds : body_return(t)
    \/ \E t \in GreenIds : body_fail(t, TRUE, TRUE)
    \/ \E t \in GreenIds : body_deschedule(t)
    \/ \E t \in GreenIds, n \in GreenIds, seg \in 1..MaxTasks :
          build_child(t, n, seg, NoSize)
    \/ \E t \in GreenIds, n \in GreenIds, seg \in 1..MaxTasks :
          build_root(t, n, seg, NoSize)
    \/ \E n \in GreenIds : future_result(n)
    \/ \E t \in GreenIds, dtor_fails \in BOOLEAN :
          run_storage_take(t, dtor_fails, FALSE)
    \/ \E t \in GreenIds, dtor_fails \in BOOLEAN :
          run_annihilate(t, dtor_fails, FALSE)
    \/ \E t \in GreenIds : run_try_return(t)
    \/ \E t \in GreenIds : run_clear_task_borrow_list(t)
    \/ \E t \in GreenIds : run_collect_failure_wait(t)
    \/ \E t \in GreenIds : run_collect_failure(t)
    \/ \E t \in GreenIds : run_set_destroyed(t)
    \/ \E t \in GreenIds : start_wrapper_take_sched(t)
    \/ \E t \in GreenIds : terminate_current_task(t)

SpecExit == Init /\ [][NextExit]_vars

\* ------------------------------------------------------ affinity
\* The scheduler starts with either setting of run_anything.
InitHome ==
    /\ \E stack_size \in StackSizes :
          /\ segments = <<requested_size(stack_size)>>
          /\ task = [t \in TaskIds |->
                        IF t = SchedTaskId
                        THEN [new_sched_task EXCEPT !.sched = sched_id]
                        ELSE IF t = 1
                        THEN [new_root_homed(1, AnySched) EXCEPT
                                 !.spawner = SchedTaskId,
                                 !.stack_size = stack_size]
                        ELSE NoTask]
    /\ current = SchedTaskId
    /\ aborted = "none"
    /\ pool = {}
    /\ cleanup_job = NoParent
    /\ trace = [t \in TaskIds |-> <<>>]
    /\ run_anything \in BOOLEAN
    /\ ret = NoCall

\* The main task builds one task with any of the four factories, with and
\* without a pinned home, and the affinity operations are called on the
\* SchedTask, on the main task and on the task it built.
NextHome ==
    \/ \E t \in GreenIds : resume_task(t)
    \/ \E t \in GreenIds : start_wrapper_cleanup(t)
    \/ \E t \in GreenIds : run_enter(t)
    \/ \E t \in GreenIds : body_deschedule(t)
    \/ \E seg \in 1..MaxTasks : build_child(MainTask, BuiltTask, seg, NoSize)
    \/ \E seg \in 1..MaxTasks : build_root(MainTask, BuiltTask, seg, NoSize)
    \/ \E seg \in 1..MaxTasks, home \in SchedIds :
          build_homed_child(MainTask, BuiltTask, seg, NoSize, home)
    \/ \E seg \in 1..MaxTasks, home \in SchedIds :
          build_homed_root(MainTask, BuiltTask, seg, NoSize, home)
    \/ \E t \in TaskIds, new_home \in Homes : give_home(t, new_home)
    \/ \E t \in TaskIds : take_unwrap_home(t)
    \/ \E t \in TaskIds : call_homed(t)
    \/ \E t \in TaskIds, id \in SchedIds, accepts \in BOOLEAN :
          call_is_home_no_tls(t, [sched_id |-> id, run_anything |-> accepts])
    \/ call_on_appropriate_sched

SpecHome == InitHome /\ [][NextHome]_vars

\* ------------------------------------------------------ reading the history
Has(t, e) == \E i \in DOMAIN trace[t] : trace[t][i] = e

Count(t, e) == Cardinality({i \in DOMAIN trace[t] : trace[t][i] = e})

\* Some a is followed, later, by some b.
Before(t, a, b) ==
    \E i, j \in DOMAIN trace[t] : i < j /\ trace[t][i] = a /\ trace[t][j] = b

\* Event a is immediately followed by event b.
Then(t, a, b) ==
    \E i \in DOMAIN trace[t] :
        i + 1 \in DOMAIN trace[t] /\ trace[t][i] = a /\ trace[t][i + 1] = b

IsPrefix(a, b) == Len(a) <= Len(b) /\ \A i \in DOMAIN a : a[i] = b[i]

\* Task t is alive and its call of run has returned to the start wrapper.
RunReturned(t) ==
    task[t].life = "live" /\ task[t].pc \in {"run_returned", "terminate", "dead"}

\* The body of t signalled failure, and Unwinder::begin_unwind started the unwind.
BodyUnwound(t) == Then(t, "body", "begin_unwind") /\ Has(t, "unwind")

\* A destructor run by the finalization of t signalled failure.
DtorFailed(t) ==
    Then(t, "storage", "begin_unwind") \/ Then(t, "annihilate", "begin_unwind")

\* The finalization events of run, in the order of its statements.
RunSteps == <<"body", "storage", "annihilate", "borrowck", "collect", "destroyed">>

RunStepsOf(t) ==
    SelectSeq(trace[t], LAMBDA e : \E i \in DOMAIN RunSteps : RunSteps[i] = e)

\* ------------------------------------------------------ C1
\* C1: for every task and every body, when run has returned destroyed is
\* true, and destroyed is false from construction until run sets it as its
\* last step.
C1_DestroyedIffRunReturned ==
    \A t \in TaskIds :
        task[t].life = "live" => (task[t].destroyed <=> RunReturned(t))

\* run has returned for a task whose body signalled failure.
C1_Witness ==
    \E t \in GreenIds : RunReturned(t) /\ BodyUnwound(t) /\ task[t].destroyed

\* ------------------------------------------------------ C2
\* C2: a body that signals failure once, with the Unwinder in state normal,
\* never aborts the process: no step of the task aborts, and when run has
\* returned unwinding is recorded on the task.
C2_SingleFailureNeverAborts ==
    \A t \in GreenIds :
        (BodyUnwound(t) /\ ~DtorFailed(t)) =>
            /\ ~Has(t, "abort")
            /\ RunReturned(t) => task[t].unwinding

\* run has returned normally after the body's single failure signal.
C2_Witness ==
    \E t \in GreenIds :
        /\ BodyUnwound(t) /\ ~DtorFailed(t) /\ Count(t, "begin_unwind") = 1
        /\ task[t].pc = "run_returned" /\ task[t].unwinding /\ aborted = "none"

\* ------------------------------------------------------ C3
\* C3 as stated: the outcome given to collect_failure is success iff the
\* Unwinder did not record unwinding, a body that completes normally yields
\* success and a body that triggers begin_unwind yields failure.
C3_Original ==
    \A t \in GreenIds :
        (task[t].life = "live" /\ task[t].death.collected > 0) =>
            /\ task[t].death.result = "success" <=> ~task[t].unwinding
            /\ Has(t, "body_return") => task[t].death.result = "success"
            /\ BodyUnwound(t) => task[t].death.result = "failure"

\* C3 amended: the outcome given to collect_failure is success iff the
\* Unwinder did not record unwinding during the run; a body that completes
\* normally yields success unless a destructor run by the finalization
\* signals failure, and a body that triggers begin_unwind yields failure.
C3_OutcomeIffNotUnwinding ==
    \A t \in GreenIds :
        (task[t].life = "live" /\ task[t].death.collected > 0) =>
            /\ task[t].death.result = "success" <=> ~Has(t, "unwind")
            /\ task[t].death.result = "success" <=> ~task[t].unwinding
            /\ (Has(t, "body_return") /\ Count(t, "begin_unwind") = 0)
                   => task[t].death.result = "success"
            /\ (Has(t, "body_return") /\ Count(t, "begin_unwind") > 0)
                   => task[t].death.result = "failure"
            /\ BodyUnwound(t) => task[t].death.result = "failure"

\* The body returned normally, a destructor failed in the finalization, and
\* collect_failure was given failure.
C3_Witness ==
    \E t \in GreenIds :
        /\ task[t].life = "live" /\ task[t].death.collected = 1
        /\ Has(t, "body_return") /\ Has(t, "unwind")
        /\ task[t].death.result = "failure"

\* ------------------------------------------------------ C4
\* C4: in every run of run, whether the body succeeds or fails, the events
\* body, LocalStorage teardown, heap teardown, borrow-list clearing,
\* collect_failure, destroyed = true occur in this order and none is skipped.
C4_FixedOrder ==
    \A t \in GreenIds :
        task[t].life = "live" =>
            /\ IsPrefix(RunStepsOf(t), RunSteps)
            /\ RunReturned(t) => RunStepsOf(t) = RunSteps

\* ------------------------------------------------------ C5
\* C5 as stated: LocalStorage teardown, heap teardown and Death collection
\* all happen strictly after Unwinder::try has returned.
C5_Original ==
    \A t \in GreenIds :
        \A e \in {"storage", "annihilate", "collect"} :
            Has(t, e) => Before(t, "try_return", e)

\* The cleanup events of t happened in order, each in its place relative to
\* the protected call: teardown of LocalStorage and of the heap after the
\* body was left and before try returned, collection after try returned.
CleanupInPlace(t) ==
    /\ Has(t, "storage") =>
          /\ Before(t, "body", "storage")
          /\ ~Before(t, "try_return", "storage")
    /\ Has(t, "annihilate") =>
          /\ Before(t, "storage", "annihilate")
          /\ ~Before(t, "try_return", "annihilate")
    /\ Has(t, "try_return") => Before(t, "storage", "try_return")
    /\ Has(t, "collect") =>
          /\ Before(t, "try_return", "collect")
          /\ Before(t, "storage", "collect")

\* C5 amended: LocalStorage teardown and then heap teardown happen after the
\* body has been left but inside the protected call, before Unwinder::try
\* returns; Death collection happens strictly after try has returned; and
\* all of it happens strictly before the task's segment returns to the pool.
C5_CleanupBetweenBodyAndRecycle ==
    [][\A t \in GreenIds :
          /\ (task'[t].life = "live" /\ trace'[t] # trace[t]) => CleanupInPlace(t)'
          /\ (task[t].coroutine # NoCoroutine /\ task'[t].coroutine = NoCoroutine) =>
                /\ CleanupInPlace(t)
                /\ Has(t, "storage") /\ Has(t, "collect")
                /\ Count(t, "storage") = 1 /\ Count(t, "collect") = 1
                /\ task[t].coroutine \notin pool
                /\ task[t].coroutine \in pool']_vars

\* The segment of a task that ran its cleanup is back in the pool.
C5_Witness ==
    \E t \in GreenIds :
        /\ task[t].life = "dropped" /\ task[t].death.collected = 1
        /\ pool # {} /\ aborted = "none"

\* ------------------------------------------------------ C6
\* C6: the body is executed exactly once over the task's lifetime, moved out
\* of its cell by the start wrapper, and run never returns with the task
\* partially torn down.
C6_BodyExactlyOnce ==
    \A t \in GreenIds :
        /\ Count(t, "body") <= 1
        /\ RunReturned(t) =>
              /\ Count(t, "body") = 1
              /\ ~task[t].start_cell
              /\ ~task[t].storage /\ ~task[t].boxes
              /\ ~task[t].borrow_list /\ ~task[t].taskgroup
              /\ task[t].death.collected = 1 /\ task[t].destroyed

\* ------------------------------------------------------ C7
\* C7: a failure signal raised while the task's Unwinder is already
\* unwinding aborts the runtime instead of starting a second unwind, and is
\* never recorded as an ordinary task failure.
C7_DoubleFaultAborts ==
    \A t \in GreenIds :
        /\ Count(t, "unwind") <= 1
        /\ Before(t, "unwind", "begin_unwind") =>
              /\ aborted \in {"unwinding again", "message wasn't utf8?"}
              /\ trace[t][Len(trace[t])] = "abort"
              /\ task[t].death.collected = 0
              /\ ~task[t].destroyed

\* A destructor failed during the cleanup of a failure and the runtime aborted.
C7_Witness ==
    \E t \in GreenIds :
        /\ BodyUnwound(t) /\ Before(t, "unwind", "begin_unwind")
        /\ aborted = "unwinding again"

\* ------------------------------------------------------ C8
\* C8: dropping a task whose destroyed flag is false is a fatal abort; a
\* task is dropped without an abort only when its run has completed and
\* destroyed is true.
C8_DropNeedsDestroyed ==
    [][\A t \in GreenIds :
          /\ (task[t].life = "live" /\ task'[t].life = "dropped") =>
                /\ task[t].destroyed
                /\ task[t].pc = "dead"
                /\ Has(t, "destroyed")
                /\ aborted' = "none"
          /\ drop_task(t) =>
                /\ ~task[t].destroyed
                /\ aborted' = "assertion failed: self.destroyed"
                /\ task'[t].life = "live"]_vars

\* One task was dropped after its run, another was dropped before it ran.
C8_Witness ==
    /\ aborted = "assertion failed: self.destroyed"
    /\ \E t \in GreenIds : task[t].life = "dropped"
    /\ \E t \in GreenIds : task[t].life = "live" /\ Has(t, "abort")

\* ------------------------------------------------------ C9
\* C9: every task is constructed with unwinding = false, the only transition
\* is normal -> unwinding, made by Unwinder::begin_unwind, and nothing sets
\* unwinding back to false while the task exists.
C9_UnwinderTwoStates ==
    [][\A t \in TaskIds :
          /\ (task[t].life = "absent" /\ task'[t].life = "live") =>
                ~task'[t].unwinding
          /\ (task[t].unwinding /\ task'[t].life = "live") => task'[t].unwinding
          /\ (task[t].life = "live" /\ ~task[t].unwinding /\ task'[t].unwinding) =>
                /\ Count(t, "unwind")' = Count(t, "unwind") + 1
                /\ Count(t, "unwind") = 0]_vars

\* A task that unwound has gone on through the rest of run.
C9_Witness ==
    \E t \in GreenIds :
        task[t].pc = "terminate" /\ task[t].unwinding /\ Has(t, "try_return")

\* ------------------------------------------------------ C10
\* C10: Unwinder::try accepts two results of the protected call, 0 and
\* UNWIND_TOKEN, and leaves unwinding as it was; any other token is fatal
\* and try does not return normally.
C10_TryAcceptsTwoTokens ==
    [][\A t \in GreenIds :
          (task[t].pc = "try_exit" /\ trace'[t] # trace[t]) =>
              IF task[t].token \in {0, UNWIND_TOKEN}
              THEN /\ task'[t].pc = "borrowck"
                   /\ aborted' = "none"
                   /\ task'[t].unwinding = task[t].unwinding
                   /\ task[t].unwinding <=> task[t].token = UNWIND_TOKEN
              ELSE /\ aborted' # "none"
                   /\ task'[t].pc = "try_exit"
                   /\ ~Has(t, "try_return")']_vars

\* try was handed a foreign token and the process aborted.
C10_Witness ==
    \E t \in GreenIds :
        /\ Has(t, "foreign_throw") /\ Has(t, "try_assert")
        /\ task[t].pc = "try_exit" /\ aborted # "none"

\* ------------------------------------------------------ stack pool
\* The memory of a dropped task is freed, and a task built later can take
\* its slot of the task table.
reclaim(n) ==
    /\ aborted = "none"
    /\ n \in GreenIds
    /\ task[n].life = "dropped"
    /\ \A m \in GreenIds : task[m].death.parent # n /\ task[m].spawner # n
    /\ task' = [task EXCEPT ![n] = NoTask]
    /\ UNCHANGED <<current, aborted, pool, segments, cleanup_job, trace,
                   run_anything, ret>>

\* The main task builds up to MaxBuilds tasks, one after another or side
\* by side, with either factory and any stack size; every task runs to its
\* end or fails, and its segment goes back to the scheduler's pool.
NextPool ==
    \/ sched_run_cleanup_job
    \/ \E t \in GreenIds : resume_task(t)
    \/ \E t \in GreenIds : resume_blocked_task(t)
    \/ \E t \in GreenIds : start_wrapper_cleanup(t)
    \/ \E t \in GreenIds : run_enter(t)
    \/ \E t \in GreenIds : body_return(t)
    \/ \E t \in GreenIds : body_fail(t, TRUE, TRUE)
    \/ \E t \in GreenIds : body_deschedule(t)
    \/ \E n \in GreenIds, seg \in 1..(MaxTasks + MaxBuilds),
          stack_size \in StackSizes :
          /\ Count(MainTask, "stack_pool") < MaxBuilds
          /\ build_child(MainTask, n, seg, stack_size)
    \/ \E n \in GreenIds, seg \in 1..(MaxTasks + MaxBuilds),
          stack_size \in StackSizes :
          /\ Count(MainTask, "stack_pool") < MaxBuilds
          /\ build_root(MainTask, n, seg, stack_size)
    \/ \E t \in GreenIds : run_storage_take(t, FALSE, FALSE)
    \/ \E t \in GreenIds : run_annihilate(t, FALSE, FALSE)
    \/ \E t \in GreenIds : run_try_return(t)
    \/ \E t \in GreenIds : run_clear_task_borrow_list(t)
    \/ \E t \in GreenIds : run_collect_failure(t)
    \/ \E t \in GreenIds : run_set_destroyed(t)
    \/ \E t \in GreenIds : start_wrapper_take_sched(t)
    \/ \E t \in GreenIds : terminate_current_task(t)
    \/ \E n \in GreenIds : reclaim(n)

SpecPool == Init /\ [][NextPool]_vars

\* Tasks whose destructors, run by the finalization, may fail and may use
\* task-local data; no task is suspended or dropped.
NextDtor ==
    \/ sched_run_cleanup_job
    \/ \E t \in GreenIds : resume_task(t)
    \/ \E t \in GreenIds : start_wrapper_cleanup(t)
    \/ \E t \in GreenIds : run_enter(t)
    \/ \E t \in GreenIds : body_touch(t)
    \/ \E t \in GreenIds : body_return(t)
    \/ \E t \in GreenIds : body_fail(t, TRUE, TRUE)
    \/ \E t \in GreenIds, n \in GreenIds, seg \in 1..MaxTasks :
          build_child(t, n, seg, NoSize)
    \/ \E t \in GreenIds, dtor_fails \in BOOLEAN, dtor_uses_tls \in BOOLEAN :
          run_storage_take(t, dtor_fails, dtor_uses_tls)
    \/ \E t \in GreenIds, dtor_fails \in BOOLEAN, dtor_uses_tls \in BOOLEAN :
          run_annihilate(t, dtor_fails, dtor_uses_tls)
    \/ \E t \in GreenIds : run_try_return(t)
    \/ \E t \in GreenIds : run_clear_task_borrow_list(t)
    \/ \E t \in GreenIds : run_collect_failure(t)
    \/ \E t \in GreenIds : run_set_destroyed(t)
    \/ \E t \in GreenIds : start_wrapper_take_sched(t)
    \/ \E t \in GreenIds : terminate_current_task(t)

SpecDtor == Init /\ [][NextDtor]_vars

\* The steps of the wrapper and of run that task t takes on its own once
\* its context runs; the steps of its body are not among them.
TaskStep(t) ==
    \/ start_wrapper_cleanup(t)
    \/ run_enter(t)
    \/ \E dtor_fails \in BOOLEAN : run_storage_take(t, dtor_fails, FALSE)
    \/ \E dtor_fails \in BOOLEAN : run_annihilate(t, dtor_fails, FALSE)
    \/ run_try_return(t)
    \/ run_clear_task_borrow_list(t)
    \/ run_collect_failure_wait(t)
    \/ run_collect_failure(t)
    \/ run_set_destroyed(t)
    \/ start_wrapper_take_sched(t)
    \/ terminate_current_task(t)

\* A step of the body of task t that gives up the processor or ends the body.
BodyStep(t) ==
    \/ body_return(t)
    \/ body_fail(t, TRUE, TRUE)
    \/ t # MainTask /\ body_deschedule(t)

\* Tasks with observers and watching children, under the scheduling of the
\* runtime: a context that runs goes on with its wrapper and its run, the
\* scheduler runs a pending cleanup job and swaps to every task of its work
\* queue again and again.  A body keeps running but is free never to end:
\* it may deschedule itself again every time it is resumed.
Fairness ==
    /\ WF_vars(sched_run_cleanup_job)
    /\ \A t \in GreenIds :
          /\ WF_vars(TaskStep(t))
          /\ WF_vars(BodyStep(t))
          /\ SF_vars(resume_task(t))
          /\ SF_vars(resume_blocked_task(t))

\* The main task, observed, builds children that watch it; every task runs
\* its body, which may deschedule itself, and its finalization.
NextLive ==
    \/ sched_run_cleanup_job
    \/ \E t \in GreenIds : resume_task(t)
    \/ \E t \in GreenIds : resume_blocked_task(t)
    \/ \E t \in GreenIds : start_wrapper_cleanup(t)
    \/ \E t \in GreenIds : run_enter(t)
    \/ body_touch(MainTask)
    \/ \E t \in GreenIds : body_return(t)
    \/ \E t \in GreenIds : body_fail(t, TRUE, TRUE)
    \/ \E t \in GreenIds \ {MainTask} : body_deschedule(t)
    \/ \E n \in GreenIds, seg \in 1..MaxTasks :
          build_child(MainTask, n, seg, NoSize)
    \/ future_result(MainTask)
    \/ \E t \in GreenIds, dtor_fails \in BOOLEAN :
          run_storage_take(t, dtor_fails, FALSE)
    \/ \E t \in GreenIds, dtor_fails \in BOOLEAN :
          run_annihilate(t, dtor_fails, FALSE)
    \/ \E t \in GreenIds : run_try_return(t)
    \/ \E t \in GreenIds : run_clear_task_borrow_list(t)
    \/ \E t \in GreenIds : run_collect_failure_wait(t)
    \/ \E t \in GreenIds : run_collect_failure(t)
    \/ \E t \in GreenIds : run_set_destroyed(t)
    \/ \E t \in GreenIds : start_wrapper_take_sched(t)
    \/ \E t \in GreenIds : terminate_current_task(t)

SpecLive == Init /\ [][NextLive]_vars /\ Fairness

\* ------------------------------------------------------ C11
\* Task t has an exit observer and collect_failure has delivered its status.
Observed(t) ==
    /\ task[t].life = "live"
    /\ task[t].death.on_exit
    /\ task[t].death.collected > 0

\* C11 as stated: the observer of a task's future result receives Success
\* when the body completed normally and Failure when the body failed.
C11_Original ==
    \A t \in GreenIds :
        Observed(t) =>
            /\ Has(t, "body_return") => task[t].death.exit_status = "success"
            /\ BodyUnwound(t) => task[t].death.exit_status = "failure"

\* C11 amended: the observer of a task's future result (the Ok or Err of a
\* try-spawn) receives Success exactly when the body completed normally, no
\* destructor run by the finalization signalled failure and no child whose
\* Death watches the task reported failure; it receives Failure otherwise,
\* in particular whenever the body failed.
C11_ObserverReceivesOutcome ==
    \A t \in GreenIds :
        Observed(t) =>
            /\ task[t].death.exit_status \in {"success", "failure"}
            /\ task[t].death.exit_status = "success" <=>
                   /\ Has(t, "body_return")
                   /\ ~DtorFailed(t)
                   /\ ~task[t].death.any_child_failed
            /\ BodyUnwound(t) => task[t].death.exit_status = "failure"

\* One observer has received Success, and the observer of a task whose body
\* failed has received Failure.
C11_Witness ==
    \E t \in GreenIds, u \in GreenIds :
        /\ task[t].death.on_exit /\ task[t].death.result = "success"
        /\ task[t].death.exit_status = "success"
        /\ Observed(u) /\ BodyUnwound(u)
        /\ task[u].death.exit_status = "failure"

\* ------------------------------------------------------ C12
\* Task b was built by task a with a child factory: a linked child of a.
LinkedChild(a, b) ==
    /\ a # b
    /\ task[b].factory = "new_child"
    /\ task[b].spawner = a

\* Task b ran to the end of run and did not succeed.
Failed(b) == task[b].death.collected > 0 /\ task[b].death.result = "failure"

\* C12: linked failure.  When a task with an exit observer has built a
\* linked child and the child failed, the result delivered for the parent is
\* failure, whether or not the parent's own body failed and whichever of
\* the two the scheduler ran first.
C12_LinkedFailure ==
    \A a \in GreenIds, b \in GreenIds :
        (Observed(a) /\ LinkedChild(a, b) /\ task[b].life # "absent") =>
            /\ task[b].death.collected > 0 \/ task[a].unwinding
            /\ Failed(b) => task[a].death.exit_status = "failure"

\* The parent's body returned normally and no destructor failed; its
\* collect_failure waited for the linked child, whose body failed; the
\* parent's observer received failure.
C12_Witness ==
    \E a \in GreenIds, b \in GreenIds :
        /\ Observed(a) /\ LinkedChild(a, b) /\ Failed(b)
        /\ Has(a, "body_return") /\ ~task[a].unwinding
        /\ Has(a, "wait_children")
        /\ task[a].death.exit_status = "failure"

\* ------------------------------------------------------ C13
\* Task c was built by task a with a root factory: an unlinked child of a.
UnlinkedChild(a, c) ==
    /\ a # c
    /\ task[c].factory = "new_root"
    /\ task[c].spawner = a

\* Task b ended and reported failure: its own, or that of a child it
\* answers for.
ReportedFailure(b) ==
    /\ task[b].death.collected > 0
    /\ task[b].death.result = "failure" \/ task[b].death.exit_status = "failure"

\* C13: an unlinked child that fails delivers Failure to its own observer and
\* does not make its parent fail: a parent whose body returned normally,
\* whose finalization did not fail and whose linked children did not report
\* failure delivers Success, whatever happened to its unlinked children.
C13_UnlinkedFailureStaysLocal ==
    \A a \in GreenIds :
        /\ \A c \in GreenIds :
              (UnlinkedChild(a, c) /\ task[c].death.on_exit /\ Failed(c)) =>
                  task[c].death.exit_status = "failure"
        /\ ( /\ Observed(a)
             /\ Has(a, "body_return")
             /\ ~DtorFailed(a)
             /\ \A b \in GreenIds : LinkedChild(a, b) => ~ReportedFailure(b) )
           => task[a].death.exit_status = "success"

\* An observed unlinked child failed and its observer received Failure; the
\* parent that built it went on, returned normally and delivered Success.
C13_Witness ==
    \E a \in GreenIds, c \in GreenIds :
        /\ UnlinkedChild(a, c) /\ task[c].death.on_exit /\ Failed(c)
        /\ task[c].death.exit_status = "failure"
        /\ Observed(a) /\ Has(a, "body_return")
        /\ task[a].death.exit_status = "success"

\* ------------------------------------------------------ C14
\* The last affinity call was op, on a GreenTask that had a home.
Answered(op) ==
    /\ ret.op = op
    /\ ret.kind = "GreenTask"
    /\ ret.home # NoHome

\* C14: homed() answers true exactly when the task's affinity names one
\* scheduler and false when it is AnySched; a task just built by build_root
\* or build_child has homed() = false.
C14_HomedIffPinned ==
    [][ /\ Answered("homed")' =>
              /\ ret'.value \in {"true", "false"}
              /\ ret'.value = "true" <=> ret'.home \in SchedIds
              /\ ret'.value = "false" <=> ret'.home = AnySched
        /\ \A n \in GreenIds :
              (task[n].life = "absent" /\ task'[n].life = "live") =>
                  \A seg \in 1..MaxTasks, stack_size \in StackSizes :
                      (\/ build_child(current, n, seg, stack_size)
                       \/ build_root(current, n, seg, stack_size))
                          => homed(task'[n]) = "false" ]_vars

\* homed() was asked of a task built without a pinned home and answered false.
C14_Witness ==
    /\ Answered("homed")
    /\ ret.task = BuiltTask
    /\ task[BuiltTask].home = AnySched
    /\ ret.value = "false"

\* ------------------------------------------------------ C15
\* C15: on_appropriate_sched() answers true exactly when the running task is
\* pinned to the scheduler it runs on, or has AnySched affinity and that
\* scheduler has run_anything set.
C15_OnAppropriateSched ==
    Answered("on_appropriate_sched") =>
        /\ ret.value \in {"true", "false"}
        /\ ret.sched = sched_id
        /\ ret.sched_run_anything = run_anything
        /\ ret.value = "true" <=>
               \/ ret.home \in SchedIds /\ ret.home = ret.sched
               \/ ret.home = AnySched /\ ret.sched_run_anything

\* A task pinned to another scheduler ran on one that runs anything and was
\* told it is not on an appropriate scheduler.
C15_Witness ==
    /\ Answered("on_appropriate_sched")
    /\ ret.home \in SchedIds /\ ret.home # ret.sched
    /\ ret.sched_run_anything
    /\ ret.value = "false"

\* ------------------------------------------------------ C16
\* What on_appropriate_sched() answers for the task of the last call when
\* the scheduler of that call is the one executing it.
SameOnAppropriateSched ==
    on_appropriate_sched([task[ret.task] EXCEPT !.home = ret.home,
                                                !.sched = ret.sched],
                         ret.sched_run_anything)

\* C16 as stated: is_home_no_tls(sched) answers true iff the task is pinned
\* to sched, or is not pinned and sched accepts unaffiliated work; it
\* answers as on_appropriate_sched() does with sched executing the task.
C16_Original ==
    Answered("is_home_no_tls") =>
        /\ ret.value = "true" <=>
               \/ ret.home \in SchedIds /\ ret.home = ret.sched
               \/ ret.home = AnySched /\ ret.sched_run_anything
        /\ ret.value = SameOnAppropriateSched

\* C16 amended: is_home_no_tls(sched) answers true iff the task is pinned to
\* sched; for a task with AnySched affinity it answers false whatever sched
\* accepts.  It answers as on_appropriate_sched() does with sched executing
\* the task exactly when the task is pinned or sched does not run anything.
C16_IsHomeIffPinnedHere ==
    Answered("is_home_no_tls") =>
        /\ ret.value \in {"true", "false"}
        /\ ret.value = "true" <=> (ret.home \in SchedIds /\ ret.home = ret.sched)
        /\ ret.value = SameOnAppropriateSched <=>
               (ret.home \in SchedIds \/ ~ret.sched_run_anything)

\* A task with AnySched affinity asked about a scheduler that runs anything:
\* is_home_no_tls answered false where on_appropriate_sched answers true.
C16_Witness ==
    /\ Answered("is_home_no_tls")
    /\ ret.home = AnySched /\ ret.sched_run_anything
    /\ ret.value = "false"
    /\ SameOnAppropriateSched = "true"

\* ------------------------------------------------------ C17
\* C17: give_home, take_unwrap_home, homed, is_home_no_tls and
\* on_appropriate_sched called on a SchedTask abort the runtime with a type
\* error; none returns a value and none changes the task.
C17_SchedTaskAborts ==
    (ret.op # "none" /\ ret.kind = "SchedTask") =>
        /\ ret.value = "abort"
        /\ aborted = IF ret.op \in {"give_home", "take_unwrap_home"}
                     THEN "type error: used SchedTask as GreenTask"
                     ELSE "type error: expected: GreenTask, found: SchedTask"
        /\ task[ret.task].kind = "SchedTask"
        /\ task[ret.task].home = ret.home
        /\ ~task[ret.task].unwinding

\* take_unwrap_home was called on the scheduler's own task and aborted.
C17_Witness ==
    /\ ret.op = "take_unwrap_home"
    /\ ret.task = SchedTaskId /\ ret.kind = "SchedTask"
    /\ ret.value = "abort" /\ aborted # "none"

\* ------------------------------------------------------ C18
\* The last affinity call was on a GreenTask whose home had been taken.
CalledWithoutHome ==
    /\ ret.op # "none"
    /\ ret.kind = "GreenTask"
    /\ ret.home = NoHome

\* C18 as stated: every affinity operation on a GreenTask without a home is
\* a fatal abort and none returns or completes normally.
C18_Original ==
    CalledWithoutHome => (ret.value = "abort" /\ aborted # "none")

\* C18 amended: on a GreenTask without a home, homed, is_home_no_tls and
\* on_appropriate_sched abort the runtime; give_home completes normally and
\* assigns the home; take_unwrap_home returns no value but signals an
\* ordinary failure, which unwinds the calling task and ends the process
\* only when the caller is the scheduler context.
C18_WithoutHome ==
    CalledWithoutHome =>
        /\ ret.op \in {"homed", "is_home_no_tls", "on_appropriate_sched"} =>
               /\ ret.value = "abort"
               /\ aborted = "task without home"
               /\ task[ret.task].home = NoHome
        /\ ret.op = "give_home" =>
               /\ ret.value = "unit"
               /\ aborted = "none"
               /\ task[ret.task].home \in Homes
        /\ ret.op = "take_unwrap_home" =>
               /\ ret.value = "fail"
               /\ task[current].unwinding
               /\ task[ret.task].home = NoHome
               /\ aborted = "none" <=> current # SchedTaskId

\* A task whose home had been taken was given a new one, and the runtime
\* goes on.
C18_Witness ==
    /\ CalledWithoutHome
    /\ ret.op = "give_home" /\ ret.value = "unit"
    /\ task[ret.task].home \in SchedIds
    /\ aborted = "none"

\* ------------------------------------------------------ C19
\* The tasks whose sched slot holds the scheduler.
Holders == {t \in TaskIds : task[t].sched # 0}

\* C19: a factory borrows the scheduler of the running task: the stack pool
\* is used while the task's sched slot is empty, the slot holds the same
\* scheduler when the factory returns, and the new task has no scheduler;
\* at no time do two tasks hold the scheduler.
C19_FactoryBorrowsSched ==
    [][ /\ Cardinality(Holders') <= 1
        /\ \A n \in GreenIds :
              (task[n].life = "absent" /\ task'[n].life = "live") =>
                  /\ task[current].sched # 0
                  /\ trace'[current] = Append(trace[current], "stack_pool")
                  /\ task'[current].sched = task[current].sched
                  /\ task'[n].sched = 0
                  /\ task'[n].spawner = current
                  /\ Holders' = {current} ]_vars

\* The running task has built a task and still holds the scheduler; the new
\* task holds none.
C19_Witness ==
    \E t \in GreenIds, n \in GreenIds :
        /\ current = t /\ task[t].pc = "body"
        /\ Has(t, "stack_pool")
        /\ task[n].spawner = t /\ task[n].pc = "built"
        /\ task[t].sched = sched_id /\ task[n].sched = 0

\* ------------------------------------------------------ C20
\* C20: a task built by a child factory has a Death derived from that of the
\* calling task, which it names as its parent; a task built by a root
\* factory has a fresh Death with no parent, although a running task built
\* it.  Neither factory changes the Death of the calling task.
C20_DeathByFactory ==
    [][ \A n \in GreenIds :
           (task[n].life = "absent" /\ task'[n].life = "live") =>
               \A seg \in 1..MaxTasks, stack_size \in StackSizes, home \in Homes :
                   /\ build_homed_child(current, n, seg, stack_size, home) =>
                          /\ task'[n].death = Death_new_child(current)
                          /\ task'[n].death.parent = current
                          /\ task'[n].death.collected = 0
                          /\ task'[current].death = task[current].death
                   /\ build_homed_root(current, n, seg, stack_size, home) =>
                          /\ task'[n].death = Death_new
                          /\ task'[n].death.parent = NoParent
                          /\ task'[n].spawner = current
                          /\ task'[current].death = task[current].death ]_vars

\* The main task built a pinned task with the child factory, and the Death
\* of the new task names the main task as its parent.
C20_Witness ==
    /\ task[BuiltTask].pc = "built"
    /\ task[BuiltTask].factory = "new_child"
    /\ task[BuiltTask].home \in SchedIds
    /\ task[BuiltTask].death.parent = MainTask
    /\ task[MainTask].death.parent = NoParent

\* ------------------------------------------------------ C21
\* C21: no factory invokes the body.  A step that builds a task leaves it
\* with start still in its cell, no event of its own, and control with the
\* caller; a task that has not been scheduled has not run its body; and the
\* body starts only in the task's own context, from the start wrapper after
\* its cleanup job, on the task's own stack segment.
C21_FactoryNeverRunsBody ==
    [][ \A n \in GreenIds :
           /\ (task[n].life = "absent" /\ task'[n].life = "live") =>
                  /\ task'[n].pc = "built"
                  /\ task'[n].start_cell
                  /\ trace'[n] = <<>>
                  /\ current' = current /\ current # n
           /\ task'[n].pc = "built" => (task'[n].start_cell /\ ~Has(n, "body")')
           /\ Count(n, "body")' > Count(n, "body") =>
                  /\ current = n
                  /\ task[n].pc = "run"
                  /\ Has(n, "cleanup_job")
                  /\ task[n].coroutine \in 1..Len(segments)
                  /\ task[n].start_cell /\ ~task'[n].start_cell ]_vars

\* A task built by a running task is later scheduled and runs its body in
\* its own context, after the start wrapper's cleanup job.
C21_Witness ==
    \E n \in GreenIds :
        /\ task[n].spawner \in GreenIds
        /\ current = n /\ task[n].pc = "body"
        /\ Count(n, "body") = 1 /\ Before(n, "cleanup_job", "body")

\* ------------------------------------------------------ C22
\* The size of the segment task t runs on.
segment_size(t) == segments[task[t].coroutine]

\* Task t holds a coroutine made by Coroutine::new.
HasCoroutine(t) ==
    /\ task[t].life = "live"
    /\ task[t].coroutine \in 1..Len(segments)

\* The size Coroutine::new had to ask for when it made the coroutine of t.
Asked(t) == IF task[t].stack_size = NoSize THEN min_stack ELSE task[t].stack_size

\* C22 as stated: the segment of a coroutine built with Some(S) has size at
\* least S, and that of one built with None has exactly the size min_stack.
C22_Original ==
    \A t \in GreenIds :
        HasCoroutine(t) =>
            IF task[t].stack_size = NoSize
            THEN segment_size(t) = min_stack
            ELSE segment_size(t) >= task[t].stack_size

\* C22 amended: Coroutine::new asks the pool for exactly S when given
\* Some(S) and for min_stack when given None: a segment allocated for the
\* request has exactly that size.  The segment of the coroutine has size at
\* least S, respectively at least min_stack; it is larger than asked for
\* only when the pool served the request from a recycled segment.
C22_SegmentAtLeastRequested ==
    [][ \A n \in GreenIds :
           /\ HasCoroutine(n)' => segment_size(n)' >= Asked(n)'
           /\ (task[n].life = "absent" /\ task'[n].life = "live") =>
                  /\ HasCoroutine(n)'
                  /\ IF task'[n].coroutine \in pool
                     THEN /\ segments' = segments
                          /\ pool' = pool \ {task'[n].coroutine}
                     ELSE /\ task'[n].coroutine = Len(segments) + 1
                          /\ segments' = Append(segments, Asked(n)')
                          /\ pool' = pool ]_vars

\* A task built without a stack size runs on a recycled segment that is
\* larger than the minimum.
C22_Witness ==
    \E n \in GreenIds :
        /\ HasCoroutine(n)
        /\ task[n].spawner = MainTask
        /\ task[n].stack_size = NoSize
        /\ segment_size(n) > min_stack
        /\ Count(MainTask, "stack_pool") = 2

\* ------------------------------------------------------ C23
\* The events of the start wrapper, in the order of its statements; run
\* stands for the call of Task::run and destroyed for its last statement.
WrapperSteps == <<"cleanup_job", "run", "destroyed", "take_sched", "terminate">>

WrapperStepsOf(t) ==
    LET IsStep(e) == \E i \in DOMAIN WrapperSteps : WrapperSteps[i] = e
    IN  SelectSeq(trace[t], IsStep)

\* C23: a task started through the start wrapper goes through the cleanup
\* job, Task::run with all of its finalization, taking the scheduler out of
\* the task and terminate_current_task, each at most once and in this
\* order.  The cleanup job is the first thing the task does, so it precedes
\* the body; nothing of run happens after the scheduler is taken; and the
\* task does not reach terminate_current_task before destroyed is true.
C23_WrapperOrder ==
    \A t \in GreenIds :
        task[t].life = "live" =>
            /\ IsPrefix(WrapperStepsOf(t), WrapperSteps)
            /\ (trace[t] # <<>> /\ task[t].pc # "built") =>
                  trace[t][1] = "cleanup_job"
            /\ \A i, j \in DOMAIN trace[t] :
                  (trace[t][i] = "destroyed" /\ i < j) =>
                      trace[t][j] \in {"take_sched", "terminate", "recycle", "abort"}
            /\ Has(t, "take_sched") => task[t].destroyed
            /\ task[t].pc \in {"terminate", "dead"} =>
                  (task[t].destroyed /\ Has(t, "take_sched"))
            /\ task[t].pc = "dead" => WrapperStepsOf(t) = WrapperSteps
            /\ task[t].pc \in {"run", "body"} => Has(t, "cleanup_job")

\* A task whose body failed has gone through the whole wrapper.
C23_Witness ==
    \E t \in GreenIds :
        /\ task[t].pc = "dead"
        /\ BodyUnwound(t)
        /\ WrapperStepsOf(t) = WrapperSteps
        /\ task[t].destroyed

\* ------------------------------------------------------ C24
\* Task t gives up its coroutine in this step.
Recycles(t) ==
    /\ task[t].coroutine \in 1..Len(segments)
    /\ task'[t].coroutine = NoCoroutine

\* C24: recycling a coroutine puts its segment, with its size, into the
\* pool and allocates nothing; and a coroutine built while the pool holds a
\* recycled segment of at least the requested size gets one of these
\* segments, which leaves the pool, without an allocation.  So a task built
\* after the task before it was recycled, asking for no more than the size
\* of that segment, runs on the same segment and the number of allocations
\* does not grow.
C24_SegmentReuse ==
    [][ /\ \A t \in GreenIds :
              Recycles(t) =>
                  /\ pool' = pool \cup {task[t].coroutine}
                  /\ segments' = segments
        /\ \A n \in GreenIds :
              (task[n].life = "absent" /\ task'[n].life = "live"
                  /\ {seg \in pool : segments[seg] >= Asked(n)'} # {}) =>
                  /\ task'[n].coroutine \in pool
                  /\ segments[task'[n].coroutine] >= Asked(n)'
                  /\ pool' = pool \ {task'[n].coroutine}
                  /\ segments' = segments ]_vars

\* The main task built two tasks one after the other, the second after the
\* first was recycled: the second runs on the segment of the first, and the
\* only allocations are the one for the main task and the one for the first.
C24_Witness ==
    \E n \in GreenIds :
        /\ Count(MainTask, "stack_pool") = 2
        /\ HasCoroutine(n)
        /\ task[n].spawner = MainTask
        /\ task[n].coroutine = 2
        /\ Len(segments) = 2
        /\ pool = {}
        /\ \A m \in GreenIds \ {MainTask, n} : task[m].life = "absent"

\* ------------------------------------------------------ C25
\* The live coroutines that hold segment seg.
CoroutinesOn(seg) ==
    {t \in GreenIds : task[t].life = "live" /\ task[t].coroutine = seg}

\* C25: every stack segment that was allocated is held either by the pool
\* or by exactly one live coroutine, never by both and never by two
\* coroutines; a task whose coroutine was recycled holds no segment and is
\* not the running context, and the running task holds a segment.
C25_OneHolder ==
    /\ \A seg \in 1..Len(segments) :
          /\ Cardinality(CoroutinesOn(seg)) + (IF seg \in pool THEN 1 ELSE 0) = 1
    /\ pool \subseteq 1..Len(segments)
    /\ \A t \in GreenIds :
          /\ task[t].life # "live" => task[t].coroutine = NoCoroutine
          /\ task[t].life = "live" => task[t].coroutine \in 1..Len(segments)
          /\ current = t => HasCoroutine(t)

\* A task was recycled: its segment is in the pool, the task holds nothing,
\* and another task runs on a segment of its own.
C25_Witness ==
    \E t \in GreenIds :
        /\ task[t].life = "dropped"
        /\ task[t].coroutine = NoCoroutine
        /\ pool # {}
        /\ current \in GreenIds
        /\ HasCoroutine(current)
        /\ task[current].coroutine \notin pool

\* ------------------------------------------------------ C26
\* Task t has fully finished: the protected call of its body returned, every
\* step of the finalization of run happened, destroyed is true, and the task
\* left its stack for good through terminate_current_task.
FullyFinished(t) ==
    /\ Has(t, "try_return")
    /\ \A i \in DOMAIN RunSteps : Count(t, RunSteps[i]) = 1
    /\ Before(t, "try_return", "destroyed")
    /\ Before(t, "destroyed", "terminate")
    /\ task[t].destroyed
    /\ task[t].death.collected = 1
    /\ task[t].pc = "dead"
    /\ current # t

\* C26: a segment enters the pool only by the recycling of the coroutine of
\* a task that has fully finished, and a segment given to a new coroutine
\* that was held before comes out of the pool: so the task that occupied
\* it before had fully finished before the new coroutine got it.  A task
\* whose LocalStorage destructor failed is recycled with the heap teardown
\* of its finalization skipped.
C26_RecycledAfterFinished ==
    [][ /\ \A t \in GreenIds : Recycles(t) => FullyFinished(t)
        /\ \A seg \in pool' \ pool :
              \E t \in GreenIds : task[t].coroutine = seg /\ Recycles(t)
        /\ \A n \in GreenIds :
              (task[n].life = "absent" /\ task'[n].life = "live"
                  /\ task'[n].coroutine \in 1..Len(segments)) =>
                  /\ task'[n].coroutine \in pool
                  /\ CoroutinesOn(task'[n].coroutine) = {} ]_vars

\* ------------------------------------------------------ C27
\* Where begin_unwind called in the context of task t reports the failure.
ReportOf(t) == IF task[t].kind = "GreenTask" THEN "log" ELSE "rterrln"

\* Event i of task t is a call of begin_unwind that got past the checks of
\* its message and file name.
Reported(t, i) ==
    /\ trace[t][i] = "begin_unwind"
    /\ ~(i + 1 \in DOMAIN trace[t] /\ trace[t][i + 1] = "abort"
          /\ aborted = "message wasn't utf8?")

\* The history of the calls of begin_unwind in the context of task t: each
\* call with a valid message and file name reports the failure exactly
\* once, to the logger of the task in green task context and to the error
\* stream otherwise, and nothing is reported outside such a call; the
\* Unwinder is set to unwinding only right after the report; and the call
\* ends in the unwind or in an abort.
ReportedOnce(t) ==
    /\ \A i \in DOMAIN trace[t] :
          Reported(t, i) =>
              /\ i + 2 \in DOMAIN trace[t]
              /\ trace[t][i + 1] = ReportOf(t)
              /\ trace[t][i + 2] \in {"unwind", "abort"}
    /\ \A i \in DOMAIN trace[t] :
          trace[t][i] \in {"log", "rterrln"} =>
              /\ i > 1
              /\ trace[t][i - 1] = "begin_unwind"
              /\ trace[t][i] = ReportOf(t)
    /\ \A i \in DOMAIN trace[t] :
          trace[t][i] = "unwind" =>
              /\ i > 2
              /\ trace[t][i - 1] = ReportOf(t)
              /\ trace[t][i - 2] = "begin_unwind"

\* C27: begin_unwind, called with a valid message and file name, reports
\* the failure exactly once, to the logger of the current task in green
\* task context and to the error stream of the process otherwise; the
\* Unwinder of the current task becomes unwinding only in a call of
\* begin_unwind, after the report; and the call never returns: it ends the
\* process or leaves the caller for the landing pad of the protected call,
\* with the unwind token raised.
C27_ReportThenUnwind ==
    [][ \A t \in TaskIds :
           /\ ReportedOnce(t)'
           /\ (task[t].life = "live" /\ task'[t].life = "live"
                  /\ ~task[t].unwinding /\ task'[t].unwinding) =>
                  /\ Count(t, "begin_unwind")' = Count(t, "begin_unwind") + 1
                  /\ Count(t, ReportOf(t))' = Count(t, ReportOf(t)) + 1
           /\ Count(t, "begin_unwind")' > Count(t, "begin_unwind") =>
                  /\ current = t
                  /\ Count(t, "begin_unwind")' = Count(t, "begin_unwind") + 1
                  /\ \/ aborted' # "none"
                     \/ /\ task'[t].unwinding
                        /\ task'[t].token = UNWIND_TOKEN
                        /\ task'[t].pc \in {"finally_storage", "try_exit"}
                        /\ task'[t].pc # task[t].pc ]_vars

\* A failure in scheduler context was reported to the error stream and not
\* to a logger, and then the Unwinder of the scheduler's task was set; with
\* no protected call around it the unwind ended the process.
C27_Witness ==
    /\ Then(SchedTaskId, "begin_unwind", "rterrln")
    /\ Then(SchedTaskId, "rterrln", "unwind")
    /\ ~Has(SchedTaskId, "log")
    /\ task[SchedTaskId].unwinding
    /\ aborted = "uncaught unwind"

\* ------------------------------------------------------ C28
\* C28: a call of begin_unwind with a message or a file name that is not
\* valid UTF-8 aborts the process at once, with "message wasn't utf8?":
\* nothing is reported to a logger or to the error stream, the unwinding
\* flag of the task keeps its value, no unwind is started and the task
\* stays where it was.  No other call aborts with that message.
C28_InvalidUtf8Aborts ==
    [][ /\ \A t \in GreenIds, msg_utf8 \in BOOLEAN, file_utf8 \in BOOLEAN :
              (body_fail(t, msg_utf8, file_utf8) /\ ~(msg_utf8 /\ file_utf8)) =>
                  /\ aborted' = "message wasn't utf8?"
                  /\ trace'[t] = trace[t] \o <<"begin_unwind", "abort">>
                  /\ task' = task
        /\ \A t \in GreenIds, msg_utf8 \in BOOLEAN, file_utf8 \in BOOLEAN :
              (body_fail(t, msg_utf8, file_utf8) /\ msg_utf8 /\ file_utf8) =>
                  aborted' # "message wasn't utf8?"
        /\ aborted' = "message wasn't utf8?" =>
              \A t \in TaskIds :
                  /\ Count(t, "log")' = Count(t, "log")
                  /\ Count(t, "rterrln")' = Count(t, "rterrln")
                  /\ Count(t, "unwind")' = Count(t, "unwind")
                  /\ task'[t].unwinding = task[t].unwinding
                  /\ task'[t].token = task[t].token
                  /\ task'[t].pc = task[t].pc ]_vars

\* The body of a task failed with a message that is not UTF-8: the process
\* aborted in begin_unwind with nothing reported and the flag not set.
C28_Witness ==
    \E t \in GreenIds :
        /\ aborted = "message wasn't utf8?"
        /\ current = t
        /\ Then(t, "body", "begin_unwind") /\ Then(t, "begin_unwind", "abort")
        /\ ~Has(t, "log") /\ ~Has(t, "rterrln") /\ ~Has(t, "unwind")
        /\ ~task[t].unwinding
        /\ task[t].pc = "body"

\* ------------------------------------------------------ C29
\* The finalization of the Death of task t: how often collect_failure ran
\* on it and the outcome it was given.
Finalization(t) == <<task[t].death.collected, task[t].death.result>>

\* C29: the Death of a task is finalized at most once, and exactly once
\* when its run has returned; it is finalized only by a step of the task
\* itself, the collect_failure of its run; and a step in which a running
\* task creates a task, watching it or not, leaves the Death of the
\* creator, and the finalization of every existing Death, as they were:
\* the new Death is not finalized.
C29_DeathFinalizedOnceByOwner ==
    [][ /\ \A t \in GreenIds :
              /\ task'[t].death.collected <= 1
              /\ task'[t].death.collected = Count(t, "collect")'
                     \/ task'[t].life # "live"
              /\ RunReturned(t)' => task'[t].death.collected = 1
              /\ (task[t].life = "live" /\ Finalization(t)' # Finalization(t)) =>
                     /\ current = t
                     /\ task[t].pc = "collect"
                     /\ task[t].death.collected = 0
                     /\ task'[t].death.collected = 1
                     /\ Count(t, "collect")' = Count(t, "collect") + 1
        /\ \A n \in GreenIds :
              (task[n].life = "absent" /\ task'[n].life = "live") =>
                  /\ task'[current].death = task[current].death
                  /\ task'[n].death.collected = 0
                  /\ \A t \in GreenIds \ {n} : Finalization(t)' = Finalization(t) ]_vars

\* A child whose Death watches that of its creator failed and finalized
\* its own Death, telling the creator; the creator then finalized its own.
C29_Witness ==
    \E p, c \in GreenIds :
        /\ task[c].spawner = p
        /\ task[c].death.parent = p
        /\ task[c].death.collected = 1
        /\ task[c].death.result = "failure"
        /\ task[p].death.any_child_failed
        /\ task[p].death.collected = 1
        /\ task[p].death.result = "success"

\* ------------------------------------------------------ C30
\* Task t is inside its body: running it, or suspended in it by a
\* scheduling operation the body called.
InBody(t) == task[t].life = "live" /\ task[t].pc \in {"body", "blocked"}

\* The last event of task t.
LastEvent(t) == IF trace[t] = <<>> THEN "none" ELSE trace[t][Len(trace[t])]

\* C30: while a task is inside its body it holds one and the same stack
\* segment, which is not in the pool and is the segment of no other task,
\* so no other body runs on it in between; the body is left only by a step
\* of the task itself in which the body returns or signals failure; and
\* control passes from a running body to the scheduler only when the body
\* itself calls a scheduling operation: nothing takes a task off the
\* processor or ends its body from outside.
C30_BodyOnOwnSegment ==
    [][ \A t \in GreenIds :
           InBody(t) =>
               /\ HasCoroutine(t)
               /\ task[t].coroutine \notin pool
               /\ CoroutinesOn(task[t].coroutine) = {t}
               /\ task'[t].life = "live"
               /\ task'[t].coroutine = task[t].coroutine
               /\ InBody(t)' =>
                      /\ task'[t].coroutine \notin pool'
                      /\ CoroutinesOn(task[t].coroutine)' = {t}
               /\ ~InBody(t)' =>
                      /\ current = t /\ current' = t
                      /\ task[t].pc = "body"
                      /\ LastEvent(t)' \in {"body_return", "unwind"}
                      /\ Count(t, "body") = 1
               /\ (current = t /\ current' # t) =>
                      /\ current' = SchedTaskId
                      /\ task'[t].pc = "blocked"
                      /\ task[t].pc = "body"
                      /\ trace'[t] = trace[t]
               /\ (task[t].pc = "blocked" /\ task'[t].pc # "blocked") =>
                      /\ current = SchedTaskId /\ current' = t
                      /\ task'[t].pc = "body" ]_vars

\* The main task is suspended in its body while the second task it built
\* runs its body on the segment the first task it built ran on.
C30_Witness ==
    \E n \in GreenIds :
        /\ task[MainTask].pc = "blocked"
        /\ current = n
        /\ task[n].pc = "body"
        /\ task[n].spawner = MainTask
        /\ Count(MainTask, "stack_pool") = 2
        /\ Len(segments) = 2
        /\ task[n].coroutine = 2
        /\ task[MainTask].coroutine = 1

\* ------------------------------------------------------ C31
\* C31: the empty placeholder coroutine, on the zero-size segment that no
\* pool handed out, is the coroutine of the task made by new_sched_task and
\* of no other task; and every green constructor installs a coroutine on a
\* segment that Coroutine::new took from the stack pool in that step: a
\* recycled segment that leaves the pool or a newly allocated one, never
\* the empty one.
C31_EmptyCoroutineOnlySchedTask ==
    [][ /\ \A t \in TaskIds :
              task'[t].life = "live" =>
                  /\ task'[t].coroutine = EmptySegment <=> task'[t].factory = "new_sched_task"
                  /\ task'[t].factory = "new_sched_task" <=> task'[t].kind = "SchedTask"
                  /\ task'[t].kind = "GreenTask" => task'[t].coroutine \in 1..Len(segments')
        /\ \A n \in GreenIds :
              (task[n].life = "absent" /\ task'[n].life = "live") =>
                  /\ task'[n].kind = "GreenTask"
                  /\ task'[n].factory \in {"new_root", "new_child"}
                  /\ task'[n].coroutine # EmptySegment
                  /\ task'[n].coroutine \in take_segment(requested_size(task'[n].stack_size))
                  /\ segments'[task'[n].coroutine] > 0
                  /\ task'[n].coroutine \notin pool' ]_vars

\* The scheduler's task holds the empty coroutine while a child built with
\* a pinned home holds a coroutine on a segment from the pool.
C31_Witness ==
    /\ task[SchedTaskId].coroutine = EmptySegment
    /\ task[SchedTaskId].factory = "new_sched_task"
    /\ task[BuiltTask].life = "live"
    /\ task[BuiltTask].factory = "new_child"
    /\ task[BuiltTask].home \in SchedIds
    /\ task[BuiltTask].coroutine \in 1..Len(segments)
    /\ segments[task[BuiltTask].coroutine] >= min_stack
    /\ task[BuiltTask].pc = "body"

\* ------------------------------------------------------ rustpkg workspaces
\* librustpkg/workspace.rs.  Paths are numbered; the environment of a call
\* is the RUST_PATH, the set of paths that contain the package id
\* (workspace_contains_package_id), and the directory the rust-path hack
\* finds, if any (find_dir_using_rust_path_hack).
MaxPaths == 3
MaxRustPath == 2
NoDir == 0
Paths == 1..MaxPaths

\* The values rust_path() can return: a nonempty list of paths.
RustPaths ==
    UNION {[1..len -> Paths] : len \in 1..MaxRustPath}

\* util::option_to_vec
option_to_vec(x) == IF x = NoDir THEN <<>> ELSE <<x>>

\* path_util::default_workspace(): the first workspace in the RUST_PATH.
default_workspace(rust_path) == rust_path[1]

\* determine_destination returning workspace whenever it equals cwd.
determine_destination_ignoring_hack(cwd, use_rust_path_hack, workspace, rust_path) ==
    IF workspace = cwd THEN workspace ELSE default_workspace(rust_path)

\* determine_destination(cwd, use_rust_path_hack, workspace)
determine_destination(cwd, use_rust_path_hack, workspace, rust_path) ==
    IF workspace = cwd /\ ~use_rust_path_hack
    THEN workspace
    ELSE default_workspace(rust_path)

\* pkg_parent_workspaces appending the hack's directory without the flag.
pkg_parent_workspaces_always_hack(rust_path, contains, use_rust_path_hack, hack_dir) ==
    SelectSeq(rust_path, LAMBDA ws : ws \in contains) \o option_to_vec(hack_dir)

\* pkg_parent_workspaces(cx, pkgid)
pkg_parent_workspaces(rust_path, contains, use_rust_path_hack, hack_dir) ==
    LET rs == SelectSeq(rust_path, LAMBDA ws : ws \in contains)
    IN  IF use_rust_path_hack THEN rs \o option_to_vec(hack_dir) ELSE rs

\* The loop of each_pkg_parent_workspace from workspace i on: the
\* workspaces action is called on.  accepts is the set of paths for which
\* action returns true.
RECURSIVE each_from(_, _, _)
each_from(workspaces, i, accepts) ==
    IF i > Len(workspaces) THEN <<>>
    ELSE IF workspaces[i] \in accepts THEN <<workspaces[i]>>
    ELSE <<workspaces[i]>> \o each_from(workspaces, i + 1, accepts)

\* each_pkg_parent_workspace going on after action returned true.
each_pkg_parent_workspace_no_break(workspaces, accepts) ==
    IF workspaces = <<>>
    THEN [value |-> "fail", calls |-> <<>>]
    ELSE [value |-> "true", calls |-> workspaces]

\* each_pkg_parent_workspace(cx, pkgid, action), given the value of
\* pkg_parent_workspaces(cx, pkgid): what it returns and the calls of action.
each_pkg_parent_workspace(workspaces, accepts) ==
    IF workspaces = <<>>
    THEN [value |-> "fail", calls |-> <<>>]
    ELSE [value |-> "true", calls |-> each_from(workspaces, 1, accepts)]

\* No function of workspace.rs has been called.
InitPkg ==
    /\ task = [t \in TaskIds |-> NoTask]
    /\ current = SchedTaskId
    /\ aborted = "none"
    /\ pool = {}
    /\ segments = <<>>
    /\ cleanup_job = NoParent
    /\ trace = [t \in TaskIds |-> <<>>]
    /\ run_anything = FALSE
    /\ ret = NoCall

\* A call of determine_destination; the call and its value are recorded.
call_determine_destination ==
    /\ ret = NoCall
    /\ \E cwd \in Paths, workspace \in Paths, use_rust_path_hack \in BOOLEAN,
          rust_path \in RustPaths :
          ret' = [op |-> "determine_destination", cwd |-> cwd,
                  workspace |-> workspace,
                  use_rust_path_hack |-> use_rust_path_hack,
                  rust_path |-> rust_path,
                  value |-> determine_destination(cwd, use_rust_path_hack,
                                                  workspace, rust_path)]
    /\ UNCHANGED <<task, current, aborted, pool, segments, cleanup_job, trace,
                   run_anything>>

\* A call of pkg_parent_workspaces.
call_pkg_parent_workspaces ==
    /\ ret = NoCall
    /\ \E rust_path \in RustPaths, contains \in SUBSET Paths,
          use_rust_path_hack \in BOOLEAN, hack_dir \in {NoDir} \cup Paths :
          ret' = [op |-> "pkg_parent_workspaces", rust_path |-> rust_path,
                  contains |-> contains,
                  use_rust_path_hack |-> use_rust_path_hack,
                  hack_dir |-> hack_dir,
                  value |-> pkg_parent_workspaces(rust_path, contains,
                                                  use_rust_path_hack, hack_dir)]
    /\ UNCHANGED <<task, current, aborted, pool, segments, cleanup_job, trace,
                   run_anything>>

\* A call of each_pkg_parent_workspace with an action that returns true on
\* the paths of accepts.
call_each_pkg_parent_workspace ==
    /\ ret = NoCall
    /\ \E rust_path \in RustPaths, contains \in SUBSET Paths,
          use_rust_path_hack \in BOOLEAN, hack_dir \in {NoDir} \cup Paths,
          accepts \in SUBSET Paths :
          LET workspaces == pkg_parent_workspaces(rust_path, contains,
                                                  use_rust_path_hack, hack_dir)
              r == each_pkg_parent_workspace(workspaces, accepts)
          IN  ret' = [op |-> "each_pkg_parent_workspace", rust_path |-> rust_path,
                      contains |-> contains,
                      use_rust_path_hack |-> use_rust_path_hack,
                      hack_dir |-> hack_dir, accepts |-> accepts,
                      workspaces |-> workspaces,
                      value |-> r.value, calls |-> r.calls]
    /\ UNCHANGED <<task, current, aborted, pool, segments, cleanup_job, trace,
                   run_anything>>

NextPkg ==
    \/ call_determine_destination
    \/ call_pkg_parent_workspaces
    \/ call_each_pkg_parent_workspace

SpecPkg == InitPkg /\ [][NextPkg]_vars

\* ------------------------------------------------------ C32
\* C32: determine_destination returns workspace when workspace equals cwd
\* and use_rust_path_hack is false, and in every other case the default
\* workspace, the first workspace in the RUST_PATH.
C32_DetermineDestination ==
    ret.op = "determine_destination" =>
        IF ret.workspace = ret.cwd /\ ~ret.use_rust_path_hack
        THEN ret.value = ret.workspace
        ELSE ret.value = ret.rust_path[1]

\* With the hack set, a workspace that is the current directory is not the
\* destination: the first workspace of the RUST_PATH is.
C32_Witness ==
    /\ ret.op = "determine_destination"
    /\ ret.workspace = ret.cwd
    /\ ret.use_rust_path_hack
    /\ ret.value = ret.rust_path[1]
    /\ ret.value # ret.workspace

\* ------------------------------------------------------ C33
\* The positions of the RUST_PATH entries that contain the package id.
ContainingAt(rust_path, contains) ==
    {i \in DOMAIN rust_path : rust_path[i] \in contains}

\* The list rs is made of the RUST_PATH entries that contain the package
\* id, each one once per position, in RUST_PATH order.
IsContaining(rs, rust_path, contains) ==
    LET at == ContainingAt(rust_path, contains)
    IN  /\ Len(rs) = Cardinality(at)
        /\ \A j \in DOMAIN rs :
              \E i \in at : /\ Cardinality({k \in at : k <= i}) = j
                            /\ rs[j] = rust_path[i]

\* C33: pkg_parent_workspaces returns the RUST_PATH entries that contain
\* the package id, all of them and in RUST_PATH order; with
\* use_rust_path_hack set and a directory found by the rust-path hack, that
\* directory comes after them as the last element; with the flag not set,
\* or nothing found, nothing is appended.
C33_PkgParentWorkspaces ==
    ret.op = "pkg_parent_workspaces" =>
        IF ret.use_rust_path_hack /\ ret.hack_dir # NoDir
        THEN /\ Len(ret.value) >= 1
             /\ ret.value[Len(ret.value)] = ret.hack_dir
             /\ IsContaining(SubSeq(ret.value, 1, Len(ret.value) - 1),
                             ret.rust_path, ret.contains)
        ELSE IsContaining(ret.value, ret.rust_path, ret.contains)

\* Only the second entry of the RUST_PATH contains the package, and the
\* hack found a directory: the result is that entry and then the directory.
C33_Witness ==
    /\ ret.op = "pkg_parent_workspaces"
    /\ ret.use_rust_path_hack
    /\ ret.hack_dir # NoDir
    /\ Len(ret.rust_path) = 2
    /\ ret.rust_path[1] \notin ret.contains
    /\ ret.rust_path[2] \in ret.contains
    /\ ret.hack_dir \notin ret.contains
    /\ ret.value = <<ret.rust_path[2], ret.hack_dir>>

\* ------------------------------------------------------ C34
\* The calls of action are made on the workspaces in order and stop after
\* the first call that returns true: no later workspace is called.
StopsAtFirstTrue(calls, workspaces, accepts) ==
    /\ calls # <<>>
    /\ IsPrefix(calls, workspaces)
    /\ \A i \in 1..(Len(calls) - 1) : calls[i] \notin accepts
    /\ calls[Len(calls)] \notin accepts => Len(calls) = Len(workspaces)

\* C34 as stated: the call fails, without calling action, when no workspace
\* of the RUST_PATH contains the package; otherwise it calls action on the
\* workspaces in order up to the first call that returns true, and returns
\* true.
C34_Original ==
    ret.op = "each_pkg_parent_workspace" =>
        IF ContainingAt(ret.rust_path, ret.contains) = {}
        THEN ret.value = "fail" /\ ret.calls = <<>>
        ELSE /\ ret.value = "true"
             /\ StopsAtFirstTrue(ret.calls, ret.workspaces, ret.accepts)

\* C34 amended: the call fails, without calling action, when
\* pkg_parent_workspaces returns no workspace: no RUST_PATH entry contains
\* the package and the rust-path hack is not set or finds no directory.
\* Otherwise it calls action on the workspaces returned, in order, stops
\* after the first call that returns true, and returns true.
C34_FailsIffNoParentWorkspace ==
    ret.op = "each_pkg_parent_workspace" =>
        /\ ret.workspaces = pkg_parent_workspaces(ret.rust_path, ret.contains,
                                                  ret.use_rust_path_hack, ret.hack_dir)
        /\ IF /\ ContainingAt(ret.rust_path, ret.contains) = {}
              /\ ~(ret.use_rust_path_hack /\ ret.hack_dir # NoDir)
           THEN ret.value = "fail" /\ ret.calls = <<>>
           ELSE /\ ret.value = "true"
                /\ StopsAtFirstTrue(ret.calls, ret.workspaces, ret.accepts)

\* No RUST_PATH entry contains the package, but the rust-path hack found a
\* directory: the call does not fail, and action is called on the directory.
C34_Witness ==
    /\ ret.op = "each_pkg_parent_workspace"
    /\ ContainingAt(ret.rust_path, ret.contains) = {}
    /\ ret.use_rust_path_hack
    /\ ret.hack_dir # NoDir
    /\ ret.value = "true"
    /\ ret.calls = <<ret.hack_dir>>

\* ------------------------------------------------------ C35
\* C35: once run has returned, after a body that returned as after a body
\* that failed, the LocalStorage of the task is empty and its taskgroup slot
\* is empty, so neither is held by the task when destroyed is true.
C35_StorageAndTaskgroupGone ==
    \A t \in GreenIds :
        (RunReturned(t) \/ (task[t].life = "live" /\ task[t].destroyed)) =>
            /\ ~task[t].storage
            /\ ~task[t].taskgroup

\* ------------------------------------------------------ C36
\* C36: when the body has completed normally and a destructor run by the
\* finalization (teardown of LocalStorage or of the heap) signals failure,
\* the Unwinder is in state normal at that point and the failure is an
\* ordinary task failure: the process does not abort, the unwind lands in
\* the protected call, run returns, collect_failure receives failure and
\* destroyed is set.
C36_DtorFailureIsOrdinaryFailure ==
    [][\A t \in GreenIds :
          (Has(t, "body_return")' /\ DtorFailed(t)') =>
              /\ ~DtorFailed(t) =>
                    /\ ~task[t].unwinding
                    /\ task'[t].unwinding
                    /\ task'[t].token = UNWIND_TOKEN
                    /\ task'[t].pc = "try_exit"
                    /\ aborted' = aborted
              /\ ~Has(t, "abort")'
              /\ Count(t, "begin_unwind")' = 1
              /\ task'[t].death.collected > 0 =>
                    task'[t].death.result = "failure"
              /\ RunReturned(t)' =>
                    /\ task'[t].destroyed
                    /\ task'[t].death.collected = 1]_vars

\* run has returned after a destructor of the heap teardown failed behind a
\* body that returned normally.
C36_Witness ==
    \E t \in GreenIds :
        /\ Has(t, "body_return") /\ Then(t, "annihilate", "begin_unwind")
        /\ task[t].pc = "run_returned" /\ task[t].destroyed
        /\ task[t].death.result = "failure" /\ aborted = "none"

\* ------------------------------------------------------ C37
\* A step of run for task t: the entry, a step of the body on its own task,
\* the finally block, the return of the protected call, the clearing of the
\* borrow list, collect_failure or the setting of destroyed.
RunStep(t) ==
    \/ run_enter(t)
    \/ body_touch(t)
    \/ body_return(t)
    \/ \E msg_utf8 \in BOOLEAN, file_utf8 \in BOOLEAN :
          body_fail(t, msg_utf8, file_utf8)
    \/ body_foreign_throw(t)
    \/ \E dtor_fails \in BOOLEAN, dtor_uses_tls \in BOOLEAN :
          run_storage_take(t, dtor_fails, dtor_uses_tls)
    \/ \E dtor_fails \in BOOLEAN, dtor_uses_tls \in BOOLEAN :
          run_annihilate(t, dtor_fails, dtor_uses_tls)
    \/ run_try_return(t)
    \/ run_clear_task_borrow_list(t)
    \/ run_collect_failure(t)
    \/ run_set_destroyed(t)

\* C37: every step of run leaves the kind and affinity of the task, its
\* name, its scheduler handle slot and its coroutine as they are; run changes
\* only storage, heap contents, borrow list, unwinder state, taskgroup, death
\* and destroyed.
C37_RunFrame ==
    [][\A t \in GreenIds :
          RunStep(t) =>
              /\ task'[t].life = task[t].life
              /\ task'[t].kind = task[t].kind
              /\ task'[t].home = task[t].home
              /\ task'[t].name = task[t].name
              /\ task'[t].sched = task[t].sched
              /\ task'[t].sched = sched_id
              /\ task'[t].coroutine = task[t].coroutine
              /\ task'[t].stack_size = task[t].stack_size
              /\ task'[t].spawner = task[t].spawner
              /\ task'[t].factory = task[t].factory]_vars

\* run has returned on the failure path: it changed unwinding, storage,
\* taskgroup, death and destroyed, and the task still has its kind, its
\* coroutine and its scheduler handle.
C37_Witness ==
    \E t \in GreenIds :
        /\ task[t].pc = "run_returned" /\ Has(t, "storage") /\ Has(t, "annihilate")
        /\ task[t].unwinding /\ task[t].destroyed /\ task[t].death.collected = 1
        /\ ~task[t].storage /\ ~task[t].taskgroup /\ ~task[t].borrow_list
        /\ task[t].kind = "GreenTask" /\ task[t].coroutine \in 1..Len(segments)
        /\ task[t].sched = sched_id

\* ------------------------------------------------------ C38
\* C38: on a GreenTask, give_home(h) makes h the affinity of the task
\* whatever affinity it had, take_unwrap_home returns the affinity the task
\* has and leaves it with none, so that give_home(h) followed by
\* take_unwrap_home returns h; neither changes another field of the task,
\* or another task.
C38_GiveThenTakeHome ==
    [][\A t \in GreenIds :
          /\ \A h \in Homes :
                give_home(t, h) =>
                    /\ task' = [task EXCEPT ![t].home = h]
                    /\ ret'.value = "unit"
                    /\ aborted' = aborted /\ trace' = trace
          /\ (take_unwrap_home(t) /\ task[t].home # NoHome) =>
                    /\ ret'.value = "home"
                    /\ ret'.taken = task[t].home
                    /\ task' = [task EXCEPT ![t].home = NoHome]
                    /\ aborted' = aborted /\ trace' = trace
          /\ (ret'.op = "give_home" /\ ret'.task = t /\ ret'.value = "unit") =>
                    task'[t].home \in Homes]_vars

\* take_unwrap_home has returned the scheduler that give_home assigned to a
\* task built with affinity AnySched, and the task is left with no affinity.
C38_Witness ==
    /\ ret.op = "take_unwrap_home" /\ ret.value = "home"
    /\ ret.task = MainTask /\ task[MainTask].factory = "new_root"
    /\ ret.taken \in SchedIds /\ ret.home = ret.taken
    /\ task[MainTask].kind = "GreenTask" /\ task[MainTask].home = NoHome
    /\ aborted = "none"

\* ------------------------------------------------------ C39
\* The fields every constructor sets the same way: not destroyed, not
\* unwinding, no LocalStorage, no taskgroup, no name, no scheduler handle,
\* and a coroutine.
FreshTask(new_task) ==
    /\ new_task.life = "live"
    /\ ~new_task.destroyed
    /\ ~new_task.unwinding
    /\ ~new_task.storage
    /\ ~new_task.taskgroup
    /\ ~new_task.name
    /\ new_task.sched = 0
    /\ new_task.coroutine # NoCoroutine

\* C39: new_sched_task, new_root_homed, new_child_homed and the build_*
\* factories yield a task that is not destroyed and not unwinding, with
\* empty LocalStorage, no taskgroup, no name, no scheduler handle and a
\* coroutine; the green constructors make a GreenTask with the affinity
\* they are given, which is AnySched for build_root and build_child.
C39_ConstructorsYieldFreshTask ==
    [][\A n \in GreenIds :
          (task[n].life = "absent" /\ task'[n].life = "live") =>
              /\ FreshTask(new_sched_task) /\ new_sched_task.kind = "SchedTask"
              /\ \A seg \in 1..MaxTasks, home \in Homes :
                    /\ FreshTask(new_root_homed(seg, home))
                    /\ new_root_homed(seg, home).kind = "GreenTask"
                    /\ new_root_homed(seg, home).home = home
                    /\ \A self \in TaskIds :
                          /\ FreshTask(new_child_homed(self, seg, home))
                          /\ new_child_homed(self, seg, home).kind = "GreenTask"
                          /\ new_child_homed(self, seg, home).home = home
              /\ FreshTask(task'[n])
              /\ task'[n].kind = "GreenTask"
              /\ task'[n].pc = "built"
              /\ task'[n].coroutine \in 1..Len(segments')
              /\ LET t == current
                     seg == task'[n].coroutine
                     size == task'[n].stack_size
                 IN  /\ (build_child(t, n, seg, size) \/ build_root(t, n, seg, size))
                           => task'[n].home = AnySched
                     /\ \A home \in Homes :
                           (\/ build_homed_child(t, n, seg, size, home)
                            \/ build_homed_root(t, n, seg, size, home))
                              => task'[n].home = home
                     /\ \/ build_child(t, n, seg, size)
                        \/ build_root(t, n, seg, size)
                        \/ \E home \in Homes :
                              \/ build_homed_child(t, n, seg, size, home)
                              \/ build_homed_root(t, n, seg, size, home)]_vars

\* build_homed_root has just built a task homed on a scheduler: the task is
\* not yet scheduled and has the fields of a fresh task.
C39_Witness ==
    /\ task[BuiltTask].life = "live" /\ task[BuiltTask].pc = "built"
    /\ task[BuiltTask].factory = "new_root"
    /\ task[BuiltTask].kind = "GreenTask" /\ task[BuiltTask].home \in SchedIds
    /\ FreshTask(task[BuiltTask])
    /\ task[BuiltTask].coroutine \in 1..Len(segments)

\* ------------------------------------------------------ C40
\* The body of t has ended, by returning or by unwinding into the finally
\* block, and t has not yet left its stack.
BodyExited(t) ==
    /\ task[t].life = "live"
    /\ task[t].pc \in {"finally_storage", "finally_heap", "try_exit", "borrowck",
                       "collect", "collect_blocked", "set_destroyed",
                       "run_returned", "terminate"}

\* destroyed is true and terminate_current_task has been called for t.
Terminated(t) ==
    /\ task[t].life = "live"
    /\ task[t].pc = "dead"
    /\ task[t].destroyed
    /\ LastEvent(t) = "terminate"

\* collect_failure of t is waiting for children that have not reported.
WaitingForChildren(t) ==
    /\ task[t].life = "live"
    /\ task[t].pc \in {"collect", "collect_blocked"}
    /\ must_wait_for_children(t)

====
